---- MODULE Spec2Model ----
(***************************************************************************)
(* A model of python-stockx: the inventory reconciliation engine           *)
(* (stockx/ext/inventory), the batch poll loop (stockx/api/batch.py), the  *)
(* request throttle and the retry policy (stockx/api/client).              *)
(*                                                                         *)
(* Each subsystem has its own specification over its own variables; the    *)
(* variables of the other subsystems stay at their initial values.         *)
(***************************************************************************)
EXTENDS Integers, Sequences, FiniteSets, TLC

\* ------------------------------------------------------------------ bounds
NItems == 2          \* ListedItems owned by the Inventory
MaxPrice == 2        \* prices are drawn from 1..MaxPrice
MaxQty == 3          \* quantities written by callers are drawn from 0..MaxQty
MaxCycles == 1       \* calls of Inventory.update() in one behaviour
MaxId == 6           \* listing ids the marketplace hands out
MaxWrites == 2       \* property writes by callers in one behaviour
NBatches == 2        \* batches awaited by one batch wait
ItemsPerBatch == 2   \* items of a batch
MaxTimeout == 3      \* batch wait timeouts are drawn from 0..MaxTimeout
NCalls == 3          \* calls made through one throttled function
Seconds == 2         \* throttle(seconds=...)
MaxTime == 6         \* the clock stops here
max_attempts == 3    \* retry(max_attempts=...)
initial_delay == 10  \* retry(initial_delay=...), in clock units
rt_timeout == 40     \* retry(timeout=...), in clock units
MaxRetryCalls == 2   \* calls made through one retry wrapper
NClientCalls == 2    \* requests made through the client's _do
MaxCancels == 1      \* callers of _do cancelled in one behaviour
NKeys == 3           \* cache keys
maxsize == 2         \* cache_by(maxsize=...)
MaxTtl == 1          \* cache_by(ttl=...) is None or in 0..MaxTtl
MaxValue == 1        \* the cached function returns 0..MaxValue; 0 is falsy
MaxCacheTime == 2    \* the clock of the cache stops here
NCacheCallers == 2   \* tasks calling the cached function
MaxCacheCalls == 4   \* calls of the cached function in one behaviour
MaxRequests == 3     \* requests made on one StockXAPIClient
MaxRefreshes == 2    \* token refresh attempts of one StockXAPIClient
MaxPubItems == 2     \* items passed to one create call
NPubVariants == 2    \* variants of the items passed to one create call
MaxPubQty == 2       \* quantities of the items passed to one create call
PubBatchSize == 1    \* batch_size of the inputs factories

VARIABLES
    \* ---- Inventory / ListedItem (stockx/ext/inventory)
    price,              \* ListedItem._item.price, per item
    quantity,           \* ListedItem._item.quantity, per item
    listing_ids,        \* ListedItem.listing_ids, per item: a list of elements
    price_updates,      \* Inventory._price_updates
    quantity_updates,   \* Inventory._quantity_updates
    upd_pc,             \* where Inventory.update() is suspended
    upd_error,          \* the exception update() raised, "none" otherwise
    decrease,           \* update_quantity: local set decrease
    increase,           \* update_quantity: local set increase
    iter_order,         \* iteration order of the set increase
    delete_inputs,      \* listing ids submitted in the delete batch
    deleted_set,        \* update_quantity: deleted_set
    create_inputs,      \* BatchCreateInputs submitted in the create batch
    next_id,            \* marketplace: next fresh listing id
    cycles,             \* number of update() calls made
    writes,             \* number of property writes made
    \* ---- history of the current update() call
    pre_price,          \* _price_updates when update() was called
    pre_quantity,       \* _quantity_updates when update() was called
    written_p,          \* items whose price another task changed during the call
    written_q,          \* items whose quantity another task changed during the call
    mkt_failed,         \* some batch item FAILED at the marketplace in this call
    created_log,        \* per create input: the listing ids the marketplace created
    qty_results,        \* what update_quantity returned: a list of UpdateResults
    upd_results,        \* what iterating update()'s return value yields
    \* ---- batch wait (stockx/api/batch.py, operations._batch_results)
    bc_pc,              \* where _batch_results / batch_completed is
    bc_timeout,         \* batch_completed: timeout
    item_status,        \* marketplace: status of every item of every batch
    queued_batch_ids,   \* batch_completed: queued_batch_ids
    finished_batch_ids, \* batch_completed: finished_batch_ids
    to_poll,            \* ids the for loop of the current round has not fetched yet
    bc_sleep,           \* batch_completed: sleep
    bc_waited,          \* batch_completed: waited
    timeout_error,      \* _batch_results: timeout_error is set
    to_fetch,           \* _batch_results: batch ids whose items are not fetched yet
    batch_results,      \* _batch_results: batch_results
    bc_outcome,         \* how _batch_results ended: "none" while it runs
    bc_exhausted,       \* the poll loop ended through its else branch
    \* ---- _ThrottleDecorator (stockx/api/client/throttle.py)
    now,                \* the clock read by now() and waited on by asyncio.sleep
    th_queue,           \* _queue: the calls whose (future, request) is queued
    th_task,            \* _task / _requester: "none", "sleeping", "running", "dead"
    th_wake,            \* the time the requester's asyncio.sleep ends
    th_running,         \* the call whose request the requester awaits, 0 if none
    last_request_time,  \* _last_request_time
    call_state,         \* per call: "new", "waiting", "cancelled", "result", "error"
    req_state,          \* per call: the request coroutine: "created", "running", "finished"
    started,            \* history: the invocations of the wrapped function, in order
    enqueued,           \* history: the calls in the order they were enqueued
    \* ---- _RetryDecorator (stockx/api/client/retry.py)
    rt_pc,              \* where the retry wrapper is: "idle", "attempt", "sleep", "done"
    attempt,            \* wrapper: attempt
    rt_waited,          \* wrapper: waited
    rt_sleep,           \* wrapper: sleep
    last_error,         \* wrapper: last_error, "unbound" before the first failure
    rt_outcome,         \* what the caller got: "none", "success" or the error raised
    rt_log,             \* history of the call: its invocations and sleeps
    rt_calls,           \* number of calls made through the wrapper
    attempt_time,       \* history: the clock when the latest attempt started, -1 before any
    attempt_before,     \* history: the clock when the attempt before it started
    sleep_start,        \* the clock when the latest backoff sleep began
    \* ---- _CacheDecorator (stockx/cache.py)
    ttl,                \* self.ttl: -1 for None
    cache,              \* self._cache, in OrderedDict order: key, value, timestamp
    cache_clock,        \* time.time()
    ca_call,            \* per caller: where its wrapper call is, its key and its now
    ca_ncalls,          \* number of calls of the cached function made
    ca_nstores,         \* number of values stored so far
    ca_evict,           \* history: the last eviction, victim and entries kept
    \* ---- StockXAPIClient (stockx/api/client/client.py)
    cl_session,         \* _session: "none", "open", "closed"
    cl_refresh_task,    \* _refresh_task: "none", "requesting", "sleeping", "dead", "cancelled"
    cl_auth_headers,    \* _auth_headers: the token it carries, 0 for None
    cl_server_token,    \* the token the marketplace accepts
    cl_refreshes,       \* refresh attempts made
    cl_closed,          \* close() was called
    cl_log,             \* history: the requests made and how each ended
    \* ---- create inputs (stockx/ext/inventory/batch/inputs.py, processing.py)
    pub_path,           \* "publish" (create_listings_inputs) or "increase" (sync_listings_inputs)
    pub_items,          \* the items as the caller passed them
    pub_pc,             \* "new", "submitted"
    pub_after,          \* the caller's items after the call
    pub_batches,        \* the create batches submitted, each a tuple of inputs
    \* ---- UpdateResult.consolidate (stockx/ext/inventory/batch/results.py)
    con_results,        \* the chained results passed to consolidate
    con_pc,             \* "new", "done"
    con_out,            \* the results consolidate yielded
    \* ---- paginators (stockx/api/base.py) and the server they read
    pg_mode,            \* "forward", "reverse" (_page) or "cursor" (_page_cursor)
    pg_total,           \* server: number of items it holds
    pg_page_size,       \* page_size
    pg_limit,           \* limit, -1 for None
    pg_last_cursor,     \* server: the nextCursor of its last page, "" or absent
    pg_pc,              \* "start", "loop", "page", "done", "raised"
    pg_page_number,     \* page_number
    pg_cursor,          \* params['cursor']
    pg_next_cursor,     \* next_cursor
    pg_has_next_page,   \* has_next_page
    pg_results,         \* what is left of results in the for loop
    pg_count,           \* count
    pg_yielded,         \* history: the items yielded so far
    pg_requests,        \* history: the requests made
    \* ---- ListedItem setters (stockx/ext/inventory/item.py) over two inventories
    li_price,           \* price of every ListedItem
    li_quantity,        \* quantity of every ListedItem
    li_price_updates,   \* per Inventory: _price_updates
    li_quantity_updates, \* per Inventory: _quantity_updates
    li_last,            \* history: the latest write and the state it found
    li_writes,          \* number of writes made
    \* ---- Inventory.change_price (stockx/ext/inventory/inventory.py)
    cp_items,           \* items, in the order given
    cp_price,           \* price of every item
    cp_fn,              \* the caller's new_price: a number, or a function of the item as a table
    cp_condition,       \* the items that meet the caller's condition
    cp_new_price,       \* the local new_price: the caller's argument or a number
    cp_k,               \* items the loop has been through
    cp_items_to_update, \* items_to_update
    cp_price_updates,   \* _price_updates
    cp_assigned,        \* history: the price assigned to each item, -1 for none
    cp_pc,              \* "loop", "raised"
    \* ---- mock_listing (ext/mock.py)
    mk_pc,              \* where the context manager is
    mk_amount,          \* the amount asked for
    mk_listing_id,      \* create.listing_id, None before create_listing returned
    mk_status,          \* status of the operation being polled
    mk_polls,           \* get_listing_operation calls made, up to MaxPolls
    mk_acquired,        \* operation_succeeded(create) returned True
    mk_deleted,         \* listing ids delete_listing was called with, in order
    mk_pending,         \* the exception on its way through the finally block
    mk_raised,          \* what the caller of the async with gets
    mk_warnings,        \* logger.warning calls
    \* ---- Listings.operation_succeeded (api/listings.py)
    os_pc,              \* polling, returned or raised
    os_operation,       \* the Operation held by the loop
    os_polls,           \* get_listing_operation calls made, up to MaxPolls
    os_result,          \* what the call gave its caller, None until then
    os_turn,            \* flips at every turn of the polling loop
    \* ---- Filter (filter.py) of an ItemsQuery
    fl_allowed_values,  \* Filter.allowed_values
    fl_before,          \* allowed_values before the last call
    fl_op,              \* the last call: none, include or filter_by
    fl_values,          \* the values of the last call
    fl_calls,           \* calls made, up to MaxFilterCalls
    \* ---- ListedItem.from_inventory_listings (item.py)
    fi_stream,          \* the listings, in arrival order
    fi_k,               \* listings consumed
    fi_variants,        \* keys of the dict items, in insertion order
    fi_items,           \* the ListedItems made, in the order made
    fi_price_updates,   \* Inventory._price_updates
    fi_quantity_updates, \* Inventory._quantity_updates
    fi_result,          \* the list returned, empty until then
    fi_pc               \* loop or returned

invVars == <<price, quantity, listing_ids, price_updates, quantity_updates,
             upd_pc, upd_error, decrease, increase, iter_order, delete_inputs,
             deleted_set, create_inputs, next_id, cycles, writes,
             pre_price, pre_quantity, written_p, written_q, mkt_failed,
             created_log, qty_results, upd_results>>

batchVars == <<bc_pc, bc_timeout, item_status, queued_batch_ids, finished_batch_ids,
               to_poll, bc_sleep, bc_waited, timeout_error, to_fetch, batch_results,
               bc_outcome, bc_exhausted>>

thrVars == <<now, th_queue, th_task, th_wake, th_running, last_request_time,
             call_state, req_state, started, enqueued>>

retryVars == <<rt_pc, attempt, rt_waited, rt_sleep, last_error, rt_outcome, rt_log, rt_calls,
               attempt_time, attempt_before, sleep_start>>

cacheVars == <<ttl, cache, cache_clock, ca_call, ca_ncalls, ca_nstores, ca_evict>>

clientVars == <<cl_session, cl_refresh_task, cl_auth_headers, cl_server_token,
                cl_refreshes, cl_closed, cl_log>>

pubVars == <<pub_path, pub_items, pub_pc, pub_after, pub_batches>>

conVars == <<con_results, con_pc, con_out>>

pgVars == <<pg_mode, pg_total, pg_page_size, pg_limit, pg_last_cursor, pg_pc,
            pg_page_number, pg_cursor, pg_next_cursor, pg_has_next_page,
            pg_results, pg_count, pg_yielded, pg_requests>>

liVars == <<li_price, li_quantity, li_price_updates, li_quantity_updates, li_last, li_writes>>

cpVars == <<cp_items, cp_price, cp_fn, cp_condition, cp_new_price, cp_k, cp_items_to_update, cp_price_updates, cp_assigned, cp_pc>>

mkVars == <<mk_pc, mk_amount, mk_listing_id, mk_status, mk_polls, mk_acquired, mk_deleted, mk_pending, mk_raised, mk_warnings>>

osVars == <<os_pc, os_operation, os_polls, os_result, os_turn>>

flVars == <<fl_allowed_values, fl_before, fl_op, fl_values, fl_calls>>

fiVars == <<fi_stream, fi_k, fi_variants, fi_items, fi_price_updates, fi_quantity_updates, fi_result, fi_pc>>

vars == <<invVars, batchVars, thrVars, retryVars, cacheVars, clientVars, pubVars, conVars, pgVars, liVars, cpVars, mkVars, osVars, flVars, fiVars>>

notInvVars == <<batchVars, thrVars, retryVars, cacheVars, clientVars, pubVars, conVars, pgVars, liVars, cpVars, mkVars, osVars, flVars, fiVars>>
notBatchVars == <<invVars, thrVars, retryVars, cacheVars, clientVars, pubVars, conVars, pgVars, liVars, cpVars, mkVars, osVars, flVars, fiVars>>
notThrVars == <<invVars, batchVars, retryVars, cacheVars, clientVars, pubVars, conVars, pgVars, liVars, cpVars, mkVars, osVars, flVars, fiVars>>
notRetryVars == <<invVars, batchVars, thrVars, cacheVars, clientVars, pubVars, conVars, pgVars, liVars, cpVars, mkVars, osVars, flVars, fiVars>>
notThrRetryVars == <<invVars, batchVars, cacheVars, clientVars, pubVars, conVars, pgVars, liVars, cpVars, mkVars, osVars, flVars, fiVars>>
notCacheVars == <<invVars, batchVars, thrVars, retryVars, clientVars, pubVars, conVars, pgVars, liVars, cpVars, mkVars, osVars, flVars, fiVars>>
notClientVars == <<invVars, batchVars, thrVars, retryVars, cacheVars, pubVars, conVars, pgVars, liVars, cpVars, mkVars, osVars, flVars, fiVars>>
notPubVars == <<invVars, batchVars, thrVars, retryVars, cacheVars, clientVars, conVars, pgVars, liVars, cpVars, mkVars, osVars, flVars, fiVars>>
notConVars == <<invVars, batchVars, thrVars, retryVars, cacheVars, clientVars, pubVars, pgVars, liVars, cpVars, mkVars, osVars, flVars, fiVars>>
notPgVars == <<invVars, batchVars, thrVars, retryVars, cacheVars, clientVars, pubVars, conVars, liVars, cpVars, mkVars, osVars, flVars, fiVars>>
notLiVars == <<invVars, batchVars, thrVars, retryVars, cacheVars, clientVars, pubVars, conVars, pgVars, cpVars, mkVars, osVars, flVars, fiVars>>
notCpVars == <<invVars, batchVars, thrVars, retryVars, cacheVars, clientVars, pubVars, conVars, pgVars, liVars, mkVars, osVars, flVars, fiVars>>
notMkVars == <<invVars, batchVars, thrVars, retryVars, cacheVars, clientVars, pubVars, conVars, pgVars, liVars, cpVars, osVars, flVars, fiVars>>
notOsVars == <<invVars, batchVars, thrVars, retryVars, cacheVars, clientVars, pubVars, conVars, pgVars, liVars, cpVars, mkVars, flVars, fiVars>>
notFlVars == <<invVars, batchVars, thrVars, retryVars, cacheVars, clientVars, pubVars, conVars, pgVars, liVars, cpVars, mkVars, osVars, fiVars>>
notFiVars == <<invVars, batchVars, thrVars, retryVars, cacheVars, clientVars, pubVars, conVars, pgVars, liVars, cpVars, mkVars, osVars, flVars>>

\* ------------------------------------------------------------------ helpers
Items == 1..NItems
Prices == 1..MaxPrice

Range(s) == {s[k] : k \in 1..Len(s)}

Perms(S) == {s \in [1..Cardinality(S) -> S] : \A a, b \in 1..Cardinality(S) : s[a] = s[b] => a = b}

\* None, where a number is expected.
None == -1

Max(a, b) == IF a >= b THEN a ELSE b
Min(a, b) == IF a <= b THEN a ELSE b

\* A plain listing id, as the marketplace returns it (a str in the source).
Lid(n) == [tup |-> FALSE, ids |-> <<n>>]
\* A tuple of listing ids stored as ONE list element.
Tup(s) == [tup |-> TRUE, ids |-> s]

\* Two items of the same variant come in pairs: items 1 and 2 share variant 1.
variant_id(i) == (i + 1) \div 2
MaxVariant == (NItems + 1) \div 2

\* ListedItem.quantity_to_sync
quantity_to_sync(q, l, i) == q[i] - Len(l[i])

\* ------------------------------------------------- processing.group_and_sum
\* attrgetter('variant_id', 'price'): the sort/group key, as one number whose
\* order is the lexicographic order of the pair.
KeyOf(v, p) == (v - 1) * MaxPrice + p
MaxKey == MaxVariant * MaxPrice
GroupKey(pr, i) == KeyOf(variant_id(i), pr[i])

\* sorted(iterable, key=attrgetter(*group_keys)): a stable sort.
RECURSIVE SortedFrom(_, _, _)
SortedFrom(s, pr, k) ==
    IF k > MaxKey THEN <<>>
    ELSE SelectSeq(s, LAMBDA i : GroupKey(pr, i) = k) \o SortedFrom(s, pr, k + 1)
SortedByKey(s, pr) == SortedFrom(s, pr, 1)

\* reduce(reduce_func, group) over every group of the sorted list, for
\* sum_attrs = ('quantity', 'listing_ids'). reduce_func(accumulated, item) sets
\* item.attr = accumulated.attr + item.attr and returns item, so the running
\* total is written into the items of the caller. Writing quantity goes through
\* the ListedItem.quantity setter, which enrolls the item when the value differs.
RECURSIVE GroupAndSumFrom(_, _, _, _)
GroupAndSumFrom(s, pr, k, st) ==
    IF k > Len(s) THEN st
    ELSE IF GroupKey(pr, s[k]) # GroupKey(pr, s[k - 1])
         THEN GroupAndSumFrom(s, pr, k + 1, st)
         ELSE LET a == s[k - 1]
                  b == s[k]
                  newq == st.q[a] + st.q[b]
              IN  GroupAndSumFrom(s, pr, k + 1,
                      [q   |-> [st.q EXCEPT ![b] = newq],
                       l   |-> [st.l EXCEPT ![b] = st.l[a] \o st.l[b]],
                       reg |-> IF newq # st.q[b] THEN st.reg \cup {b} ELSE st.reg])
group_and_sum(s, pr, q, l) ==
    GroupAndSumFrom(s, pr, 2, [q |-> q, l |-> l, reg |-> {}])

\* The item yielded for each group: the last item of the group.
GroupLast(s, pr) ==
    SelectSeq([k \in 1..Len(s) |-> k],
              LAMBDA k : k = Len(s) \/ GroupKey(pr, s[k + 1]) # GroupKey(pr, s[k]))

\* inputs.sync_listings_inputs: one BatchCreateInput per yielded item.
sync_listings_inputs(s, pr, st) ==
    LET last == GroupLast(s, pr)
    IN  [j \in 1..Len(last) |->
            [variant_id |-> variant_id(s[last[j]]),
             amount     |-> pr[s[last[j]]],
             quantity   |-> quantity_to_sync(st.q, st.l, s[last[j]])]]

\* ------------------------------------------- ErrorDetail / UpdateResult
\* ErrorDetail(message, occurrences, listing_id); listing_id 0 stands for None.
ErrorDetail(message, occurrences, listing_id) ==
    [message |-> message, occurrences |-> occurrences, listing_id |-> listing_id]

\* UpdateResult(item, created, updated, deleted, failed, errors_detail); item 0
\* stands for None. The id tuples are kept as sets, errors_detail as a tuple.
UpdateResult(item, created, updated, deleted, failed, errors_detail) ==
    [item |-> item, created |-> created, updated |-> updated, deleted |-> deleted,
     failed |-> failed, errors_detail |-> errors_detail]

\* chain.from_iterable(r.errors_detail for r in item_results)
RECURSIVE ChainErrors(_)
ChainErrors(rs) ==
    IF Len(rs) = 0 THEN <<>> ELSE Head(rs).errors_detail \o ChainErrors(Tail(rs))

\* The keys of Counter(errors), in the order of their first occurrence.
RECURSIVE CounterKeys(_)
CounterKeys(ms) ==
    IF Len(ms) = 0 THEN <<>>
    ELSE LET front == SubSeq(ms, 1, Len(ms) - 1)
             last  == ms[Len(ms)]
         IN  IF last \in Range(front) THEN CounterKeys(front)
             ELSE Append(CounterKeys(front), last)

\* ErrorDetail.from_messages: one ErrorDetail per message, its occurrences the
\* number of times the message is in errors.
from_messages(errors) ==
    LET keys == CounterKeys(errors)
    IN  [j \in 1..Len(keys) |->
            ErrorDetail(keys[j],
                        Cardinality({k \in 1..Len(errors) : errors[k] = keys[j]}), 0)]

\* a -= b that leaves a as it is.
NotSubtracted(a, b) == a

\* a -= b on sets
Subtracted(a, b) == a \ b

\* UpdateResult.consolidate for one item and the results that name it.
ConsolidateItem(item, item_results) ==
    LET ks          == 1..Len(item_results)
        created_ids == UNION {item_results[k].created : k \in ks}
        updated_ids == UNION {item_results[k].updated : k \in ks}
        deleted_ids == UNION {item_results[k].deleted : k \in ks}
        failed_ids  == UNION {item_results[k].failed : k \in ks}
        all_errors  == ChainErrors(item_results)
        messages    == [k \in 1..Len(all_errors) |-> all_errors[k].message]
        created2    == Subtracted(created_ids, updated_ids \cup deleted_ids)
        updated2    == Subtracted(updated_ids, deleted_ids)
        failed2     == Subtracted(failed_ids, created2 \cup updated2 \cup deleted_ids)
    IN  UpdateResult(item, created2, updated2, deleted_ids, failed2,
                     from_messages(messages))

\* UpdateResult.consolidate(*results) for the chained results: the set of the
\* results it yields, one per item.
consolidate(results) ==
    { ConsolidateItem(item, SelectSeq(results, LAMBDA r : r.item = item)) :
        item \in {results[k].item : k \in 1..Len(results)} }

\* ------------------------------------------------------- Inventory: Init
InitLen(i) == ((i - 1) % 2) + 1
InitFirstId(i) == IF i = 1 THEN 1 ELSE 1 + ((i - 1) \div 2) * 3 + ((i - 1) % 2)
NInitIds == (NItems \div 2) * 3 + (NItems % 2)

InitInv ==
    /\ price = [i \in Items |-> ((i - 1) % MaxPrice) + 1]
    /\ listing_ids = [i \in Items |-> [k \in 1..InitLen(i) |-> Lid(InitFirstId(i) + k - 1)]]
    /\ quantity = [i \in Items |-> InitLen(i)]
    /\ price_updates = {}
    /\ quantity_updates = {}
    /\ upd_pc = "idle"
    /\ upd_error = "none"
    /\ decrease = {}
    /\ increase = {}
    /\ iter_order = <<>>
    /\ delete_inputs = {}
    /\ deleted_set = {}
    /\ create_inputs = <<>>
    /\ next_id = NInitIds + 1
    /\ cycles = 0
    /\ writes = 0
    /\ pre_price = {}
    /\ pre_quantity = {}
    /\ written_p = {}
    /\ written_q = {}
    /\ mkt_failed = FALSE
    /\ created_log = <<>>
    /\ qty_results = <<>>
    /\ upd_results = {}

\* ------------------------------------------- ListedItem property setters
histVars == <<pre_price, pre_quantity, mkt_failed, created_log, qty_results, upd_results>>
countVars == <<next_id, cycles, writes>>
localVars == <<decrease, increase, iter_order, delete_inputs, deleted_set, create_inputs>>

\* update() is suspended at an await: other tasks may run.
Suspended == upd_pc \in {"delete_wait", "create_wait"}
CallerMayRun == upd_pc = "idle" \/ Suspended

\* The setter that stores every value it is given.
SetterStoresAlways(value, current) == TRUE

\* if value != self.price / if value != self.quantity
SetterStores(value, current) == value # current

\* ListedItem.price setter + Inventory.register_price_change
SetPrice(i, v) ==
    /\ UNCHANGED notInvVars
    /\ CallerMayRun
    /\ writes < MaxWrites
    /\ writes' = writes + 1
    /\ SetterStores(v, price[i])
    /\ price' = [price EXCEPT ![i] = v]
    /\ price_updates' = price_updates \cup {i}
    /\ written_p' = IF Suspended THEN written_p \cup {i} ELSE written_p
    /\ UNCHANGED <<quantity, listing_ids, quantity_updates, upd_pc, upd_error,
                   next_id, cycles, written_q, localVars, histVars>>

\* ListedItem.quantity setter + Inventory.register_quantity_change
SetQuantity(i, v) ==
    /\ UNCHANGED notInvVars
    /\ CallerMayRun
    /\ writes < MaxWrites
    /\ writes' = writes + 1
    /\ SetterStores(v, quantity[i])
    /\ quantity' = [quantity EXCEPT ![i] = v]
    /\ quantity_updates' = quantity_updates \cup {i}
    /\ written_q' = IF Suspended THEN written_q \cup {i} ELSE written_q
    /\ UNCHANGED <<price, listing_ids, price_updates, upd_pc, upd_error,
                   next_id, cycles, written_p, localVars, histVars>>

\* ------------------------------------------------------ Inventory.update
\* update_listings calls update_listings_inputs(items, 'EUR', 100), which takes
\* (items, batch_size): the call raises TypeError before its first await.
update_listings_error == "TypeError"

\* item.listing_ids[:-item.quantity_to_sync()]: the leading ids instead.
DeleteIdsLeading(q, l, dec) ==
    UNION {{l[i][k] : k \in 1..(0 - quantity_to_sync(q, l, i))} : i \in dec}

\* item.listing_ids[item.quantity_to_sync():] for the items of decrease
DeleteIds(q, l, dec) ==
    UNION {{l[i][k] : k \in (Len(l[i]) + quantity_to_sync(q, l, i) + 1)..Len(l[i])} : i \in dec}

\* UpdateFinish with the two clear() calls in a finally block.
UpdateFinishClearsAlways ==
    /\ IF price_updates # {}
       THEN upd_pc' = "raised" /\ upd_error' = update_listings_error
       ELSE upd_pc' = "returned" /\ upd_error' = "none"
    /\ price_updates' = {}
    /\ quantity_updates' = {}

\* The last lines of update(): the price step, then the two clear() calls.
\* Reached with no await after the quantity step.
UpdateFinish ==
    IF price_updates # {}
    THEN /\ upd_pc' = "raised"
         /\ upd_error' = update_listings_error
         /\ UNCHANGED <<price_updates, quantity_updates>>
    ELSE /\ upd_pc' = "returned"
         /\ upd_error' = "none"
         /\ price_updates' = {}
         /\ quantity_updates' = {}

\* update() is called: with nothing quantity-dirty it finishes without an await.
\* Otherwise update_quantity partitions the dirty items, submits the delete
\* batch and waits for it.
UpdateCall ==
    /\ UNCHANGED notInvVars
    /\ upd_pc = "idle"
    /\ cycles < MaxCycles
    /\ cycles' = cycles + 1
    /\ pre_price' = price_updates
    /\ pre_quantity' = quantity_updates
    /\ written_p' = {}
    /\ written_q' = {}
    /\ mkt_failed' = FALSE
    /\ created_log' = <<>>
    /\ qty_results' = <<>>
    /\ upd_results' = {}
    /\ IF quantity_updates = {}
       THEN /\ UpdateFinish
            /\ UNCHANGED <<price, quantity, listing_ids, next_id, writes, localVars>>
       ELSE LET dec == {i \in quantity_updates : quantity_to_sync(quantity, listing_ids, i) < 0}
                inc == {i \in quantity_updates : quantity_to_sync(quantity, listing_ids, i) > 0}
            IN  /\ decrease' = dec
                /\ increase' = inc
                /\ \E o \in Perms(inc) : iter_order' = o
                /\ delete_inputs' = DeleteIds(quantity, listing_ids, dec)
                /\ deleted_set' = {}
                /\ create_inputs' = <<>>
                /\ upd_pc' = "delete_wait"
                /\ upd_error' = "none"
                /\ UNCHANGED <<price, quantity, listing_ids, price_updates,
                               quantity_updates, next_id, writes>>

\* A request of the delete or create path fails after its retries: the
\* StockXRequestError propagates out of update().
RequestFails ==
    /\ UNCHANGED notInvVars
    /\ Suspended
    /\ upd_pc' = "raised"
    /\ upd_error' = "StockXRequestError"
    /\ UNCHANGED <<price, quantity, listing_ids, price_updates, quantity_updates,
                   countVars, written_p, written_q, localVars, histVars>>

\* The delete batch completes: every plain id is deleted or FAILED; an element
\* that is no listing id FAILS. update_quantity goes on into increase_listings:
\* sync_listings_inputs (group_and_sum) runs and the create batch is submitted.
DeleteDone ==
    /\ UNCHANGED notInvVars
    /\ upd_pc = "delete_wait"
    /\ \E ok \in SUBSET {e \in delete_inputs : ~e.tup} :
          /\ deleted_set' = ok
          /\ mkt_failed' = (mkt_failed \/ ok # delete_inputs)
    /\ LET s  == SortedByKey(iter_order, price)
           st == group_and_sum(s, price, quantity, listing_ids)
       IN  /\ quantity' = st.q
           /\ listing_ids' = st.l
           /\ quantity_updates' = quantity_updates \cup st.reg
           /\ create_inputs' = sync_listings_inputs(s, price, st)
    /\ upd_pc' = "create_wait"
    /\ UNCHANGED <<price, price_updates, upd_error, decrease, increase, iter_order,
                   delete_inputs, countVars, pre_price, pre_quantity,
                   written_p, written_q, created_log, qty_results, upd_results>>

\* -------------------------------------------- marketplace: batch create
\* The marketplace returns one result per listing of an input; of an input of
\* quantity q it creates n[j] <= q listings and FAILS the others (an input of
\* quantity <= 0 FAILS). The created ids are fresh.
RECURSIVE SumTo(_, _)
SumTo(n, j) == IF j = 0 THEN 0 ELSE n[j] + SumTo(n, j - 1)

CreatedIds(n, j) == [k \in 1..n[j] |-> Lid(next_id + SumTo(n, j - 1) + k - 1)]

\* ---------------------------------------- UpdateResult.from_batch_create
\* item_map = {(item.variant_id, item.price): item for item in items}: of the
\* items with one key, the one iterated last stays. 0 when no item has the key.
ItemMap(order, pr, key) ==
    LET ks == {k \in 1..Len(order) : GroupKey(pr, order[k]) = key}
    IN  IF ks = {} THEN 0 ELSE order[CHOOSE k \in ks : \A m \in ks : m <= k]

\* The marketplace's error text of a FAILED batch item.
ErrMsg == "listing rejected"

\* One UpdateResult per result group whose key is in item_map; created is the
\* tuple of the group's listing ids. (failed and errors_detail are read from the
\* group iterator after created has consumed it: they are always empty.)
from_batch_create(order, pr, inputs, n) ==
    LET all == [j \in 1..Len(inputs) |->
                  [item    |-> ItemMap(order, pr, KeyOf(inputs[j].variant_id, inputs[j].amount)),
                   created |-> [k \in 1..n[j] |-> CreatedIds(n, j)[k].ids[1]]]]
    IN  SelectSeq(all, LAMBDA r : r.item # 0)

\* BatchResultBase.listing_id reads self.result.listing_id: of a FAILED result
\* whose result is None it raises AttributeError. The groups from_batch_create
\* gets through before it reads such a result: all of them (0) when there is
\* none, otherwise the groups before the first group that has one.
FirstNullGroup(order, pr, inputs, n, null) ==
    LET bad == {j \in 1..Len(inputs) :
                  /\ ItemMap(order, pr, KeyOf(inputs[j].variant_id, inputs[j].amount)) # 0
                  /\ n[j] # inputs[j].quantity}
    IN  IF null /\ bad # {} THEN CHOOSE j \in bad : \A m \in bad : j <= m ELSE 0

\* --------------------------------------------- update_quantity: the tail
\* item.listing_ids = [l for l in item.listing_ids if l not in deleted]
RemoveDeleted(l, dec, del) ==
    [i \in Items |-> IF i \in dec THEN SelectSeq(l[i], LAMBDA e : e \notin del) ELSE l[i]]

\* decreased_results: one UpdateResult per item of decrease, with the item's
\* ids that are in deleted_set, those in failed_set and their ErrorDetails
\* (from_batch_delete makes one ErrorDetail per failed id). An item has one
\* result, so the order of the list is of no effect: ascending here.
DecreasedResults(l, dec, del, inputs) ==
    LET order == SelectSeq([k \in 1..NItems |-> k], LAMBDA i : i \in dec)
        failed_set == inputs \ del
    IN  [k \in 1..Len(order) |->
            LET failed == SelectSeq(l[order[k]], LAMBDA e : e \in failed_set)
            IN  UpdateResult(order[k], {},  {},
                             {e \in Range(l[order[k]]) : e \in del},
                             Range(failed),
                             [m \in 1..Len(failed) |-> ErrorDetail(ErrMsg, 1, failed[m])])]

\* for item in increase: item.listing_ids.extend(result.created for result in
\* increased_results if result.item == item). increased_results is a generator:
\* the first item of the loop consumes it, and what extend appends is each
\* result's created tuple, as one element.
ExtendCreated(l, order, results) ==
    IF Len(order) = 0 THEN l
    ELSE LET first == order[1]
             mine  == SelectSeq(results, LAMBDA r : r.item = first)
         IN  [l EXCEPT ![first] = l[first] \o [k \in 1..Len(mine) |-> Tup(mine[k].created)]]

\* What is left of increased_results for chain(decreased_results,
\* increased_results) once the loop over increase is over.
IncreasedLeft(order, results) ==
    IF Len(order) = 0
    THEN [k \in 1..Len(results) |->
            UpdateResult(results[k].item, {Lid(results[k].created[m]) : m \in 1..Len(results[k].created)},
                         {}, {}, {}, <<>>)]
    ELSE <<>>

\* The create batch completes; update_quantity updates the items' listing_ids
\* and returns, and update() goes on to its price step with no further await.
\* null: the marketplace sends a FAILED item with no result object.
CreateDone ==
    /\ UNCHANGED notInvVars
    /\ upd_pc = "create_wait"
    /\ \E n \in [1..Len(create_inputs) -> 0..(2 * MaxQty)], null \in BOOLEAN :
          /\ \A j \in 1..Len(create_inputs) : n[j] <= Max(create_inputs[j].quantity, 0)
          /\ next_id + SumTo(n, Len(create_inputs)) - 1 <= MaxId
          /\ next_id' = next_id + SumTo(n, Len(create_inputs))
          /\ mkt_failed' = (mkt_failed \/ \E j \in 1..Len(create_inputs) :
                                              n[j] # create_inputs[j].quantity)
          /\ created_log' = [j \in 1..Len(create_inputs) |->
                                {CreatedIds(n, j)[k] : k \in 1..n[j]}]
          /\ LET all   == from_batch_create(iter_order, price, create_inputs, n)
                 stop  == IF Len(iter_order) = 0 THEN 0
                          ELSE FirstNullGroup(iter_order, price, create_inputs, n, null)
                 increased_results ==
                     IF stop = 0 THEN all
                     ELSE from_batch_create(iter_order, price,
                                            SubSeq(create_inputs, 1, stop - 1), n)
                 removed == RemoveDeleted(listing_ids, decrease, deleted_set)
             IN  /\ listing_ids' = ExtendCreated(removed, iter_order, increased_results)
                 /\ IF stop # 0
                    THEN /\ upd_pc' = "raised"
                         /\ upd_error' = "AttributeError"
                         /\ qty_results' = <<>>
                         /\ upd_results' = {}
                         /\ UNCHANGED <<price_updates, quantity_updates>>
                    ELSE /\ qty_results' =
                               DecreasedResults(listing_ids, decrease, deleted_set, delete_inputs)
                                   \o IncreasedLeft(iter_order, increased_results)
                         /\ UpdateFinish
                         /\ upd_results' = IF price_updates = {}
                                           THEN consolidate(qty_results') ELSE {}
    /\ UNCHANGED <<price, quantity, cycles, writes, pre_price, pre_quantity,
                   written_p, written_q, localVars>>

\* The caller has seen update() return or raise, and is done with its results.
UpdateObserved ==
    /\ UNCHANGED notInvVars
    /\ upd_pc \in {"returned", "raised"}
    /\ upd_pc' = "idle"
    /\ upd_error' = "none"
    /\ created_log' = <<>>
    /\ qty_results' = <<>>
    /\ upd_results' = {}
    /\ UNCHANGED <<price, quantity, listing_ids, price_updates, quantity_updates,
                   countVars, written_p, written_q, localVars,
                   pre_price, pre_quantity, mkt_failed>>

NextInv ==
    \/ \E i \in Items, v \in Prices : SetPrice(i, v)
    \/ \E i \in Items, v \in 0..MaxQty : SetQuantity(i, v)
    \/ UpdateCall
    \/ RequestFails
    \/ DeleteDone
    \/ CreateDone
    \/ UpdateObserved

\* ===================================================== the batch wait
Batches == 1..NBatches
BatchItems == 1..ItemsPerBatch

\* BatchStatus.status as the marketplace reports it: COMPLETED once no item of
\* the batch is QUEUED.
BatchOperationStatus(b) ==
    IF \A k \in BatchItems : item_status[b][k] # "QUEUED" THEN "COMPLETED"
    ELSE IF \A k \in BatchItems : item_status[b][k] = "QUEUED" THEN "QUEUED"
    ELSE "IN_PROGRESS"

InitBatch ==
    /\ bc_pc = "sleep"
    /\ bc_timeout \in 0..MaxTimeout
    /\ item_status = [b \in Batches |-> [k \in BatchItems |-> "QUEUED"]]
    /\ queued_batch_ids = Batches
    /\ finished_batch_ids = {}
    /\ to_poll = {}
    /\ bc_sleep = 1
    /\ bc_waited = 0
    /\ timeout_error = FALSE
    /\ to_fetch = {}
    /\ batch_results = {}
    /\ bc_outcome = "none"
    /\ bc_exhausted = FALSE

\* The marketplace finishes one item of a batch.
MarketplaceProgress(b, k, st) ==
    /\ UNCHANGED notBatchVars
    /\ bc_pc # "done"
    /\ item_status[b][k] = "QUEUED"
    /\ item_status' = [item_status EXCEPT ![b][k] = st]
    /\ UNCHANGED <<bc_pc, bc_timeout, queued_batch_ids, finished_batch_ids, to_poll,
                   bc_sleep, bc_waited, timeout_error, to_fetch, batch_results,
                   bc_outcome, bc_exhausted>>

\* await asyncio.sleep(sleep), then the for loop over queued_batch_ids starts.
BatchSleep ==
    /\ UNCHANGED notBatchVars
    /\ bc_pc = "sleep"
    /\ bc_pc' = "poll"
    /\ to_poll' = queued_batch_ids
    /\ UNCHANGED <<bc_timeout, item_status, queued_batch_ids, finished_batch_ids,
                   bc_sleep, bc_waited, timeout_error, to_fetch, batch_results,
                   bc_outcome, bc_exhausted>>

\* status = await get_batch_status(batch_id), for one id of the round.
BatchPoll(b) ==
    /\ UNCHANGED notBatchVars
    /\ bc_pc = "poll"
    /\ b \in to_poll
    /\ to_poll' = to_poll \ {b}
    /\ finished_batch_ids' = IF BatchOperationStatus(b) = "COMPLETED"
                             THEN finished_batch_ids \cup {b} ELSE finished_batch_ids
    /\ UNCHANGED <<bc_pc, bc_timeout, item_status, queued_batch_ids, bc_sleep,
                   bc_waited, timeout_error, to_fetch, batch_results, bc_outcome,
                   bc_exhausted>>

\* StockXBatchTimeout(message=..., queued_batch_ids=...): __init__ has a third
\* required parameter, partial_batch_results, so the call raises TypeError.
StockXBatchTimeout_init(given_partial_batch_results) ==
    IF given_partial_batch_results THEN "StockXBatchTimeout" ELSE "TypeError"

\* The round is over: difference_update, the emptiness test, the budget
\* arithmetic and the while test; on exhaustion the else branch raises, and
\* _batch_results catches StockXBatchTimeout only.
BatchRoundEnd ==
    /\ UNCHANGED notBatchVars
    /\ bc_pc = "poll"
    /\ to_poll = {}
    /\ LET q == queued_batch_ids \ finished_batch_ids
           w == bc_waited + bc_sleep
           s == Min(bc_sleep * 2, bc_timeout - w)
       IN  /\ queued_batch_ids' = q
           /\ IF q = {}
              THEN /\ bc_pc' = "fetch"
                   /\ to_fetch' = Batches
                   /\ UNCHANGED <<bc_waited, bc_sleep, timeout_error, bc_outcome, bc_exhausted>>
              ELSE /\ bc_waited' = w
                   /\ bc_sleep' = s
                   /\ IF w <= bc_timeout
                      THEN /\ bc_pc' = "sleep"
                           /\ UNCHANGED <<to_fetch, timeout_error, bc_outcome, bc_exhausted>>
                      ELSE /\ bc_exhausted' = TRUE
                           /\ IF StockXBatchTimeout_init(FALSE) = "StockXBatchTimeout"
                              THEN /\ bc_pc' = "fetch"
                                   /\ to_fetch' = Batches
                                   /\ timeout_error' = TRUE
                                   /\ UNCHANGED bc_outcome
                              ELSE /\ bc_pc' = "done"
                                   /\ bc_outcome' = StockXBatchTimeout_init(FALSE)
                                   /\ UNCHANGED <<to_fetch, timeout_error>>
    /\ UNCHANGED <<bc_timeout, item_status, finished_batch_ids, to_poll, batch_results>>

\* results = await get_items(batch_id); result.status is a BatchItemStatus and
\* is compared with the str 'QUEUED': the comparison is never equal, so every
\* result is appended.
NotQueuedStr(st) == TRUE

BatchFetch(b) ==
    /\ UNCHANGED notBatchVars
    /\ bc_pc = "fetch"
    /\ b \in to_fetch
    /\ to_fetch' = to_fetch \ {b}
    /\ batch_results' = batch_results \cup
          {<<b, k, item_status[b][k]>> : k \in {k \in BatchItems : NotQueuedStr(item_status[b][k])}}
    /\ UNCHANGED <<bc_pc, bc_timeout, item_status, queued_batch_ids, finished_batch_ids,
                   to_poll, bc_sleep, bc_waited, timeout_error, bc_outcome, bc_exhausted>>

\* The end of _batch_results: re-raise the timeout with the partial results, or
\* return the results.
BatchResultsEnd ==
    /\ UNCHANGED notBatchVars
    /\ bc_pc = "fetch"
    /\ to_fetch = {}
    /\ bc_pc' = "done"
    /\ bc_outcome' = IF timeout_error THEN "StockXBatchTimeout" ELSE "returned"
    /\ UNCHANGED <<bc_timeout, item_status, queued_batch_ids, finished_batch_ids,
                   to_poll, bc_sleep, bc_waited, timeout_error, to_fetch,
                   batch_results, bc_exhausted>>

\* A status or items request fails after its retries.
BatchRequestFails ==
    /\ UNCHANGED notBatchVars
    /\ bc_pc \in {"poll", "fetch"}
    /\ bc_pc' = "done"
    /\ bc_outcome' = "StockXRequestError"
    /\ UNCHANGED <<bc_timeout, item_status, queued_batch_ids, finished_batch_ids,
                   to_poll, bc_sleep, bc_waited, timeout_error, to_fetch,
                   batch_results, bc_exhausted>>

\* StockXIncompleteOperation.__init__ stores list(partial_results): given one
\* UpdateResult, which is not iterable, it raises TypeError.
StockXIncompleteOperation_init(partial_results_iterable) ==
    IF partial_results_iterable THEN "StockXIncompleteOperation" ELSE "TypeError"

\* delete_listings: how it ends, given how its _batch_results ended. It passes
\* the one UpdateResult of from_batch_delete as partial_results.
delete_listings_end(outcome) ==
    IF outcome = "StockXBatchTimeout" THEN StockXIncompleteOperation_init(FALSE)
    ELSE outcome

\* _create_listings: how it ends, given how its _batch_results ended. It passes
\* the iterator of from_batch_create as partial_results.
create_listings_end(outcome) ==
    IF outcome = "StockXBatchTimeout" THEN StockXIncompleteOperation_init(TRUE)
    ELSE outcome

\* update_quantity goes on after a path that returned or raised
\* StockXIncompleteOperation; anything else leaves update_quantity.
update_quantity_goes_on(path_end) ==
    path_end \in {"returned", "StockXIncompleteOperation"}

NextBatch ==
    \/ \E b \in Batches, k \in BatchItems, st \in {"COMPLETED", "FAILED"} :
          MarketplaceProgress(b, k, st)
    \/ BatchSleep
    \/ \E b \in Batches : BatchPoll(b)
    \/ BatchRoundEnd
    \/ \E b \in Batches : BatchFetch(b)
    \/ BatchResultsEnd
    \/ BatchRequestFails

\* ======================================================= the throttle
Calls == 1..NCalls

\* _requester: sleep = max(0, self.seconds - (now() - self._last_request_time))
RequesterSleepInverted(n, last) == Max(0, (n - last) - Seconds)
RequesterSleep(n, last) == Max(0, Seconds - (n - last))

\* deque.popleft(): the call dequeued.
pop(q) == q[Len(q)]
popleft(q) == q[1]

InitThrottle ==
    /\ now \in 0..Seconds
    /\ th_queue = <<>>
    /\ th_task = "none"
    /\ th_wake = 0
    /\ th_running = 0
    /\ last_request_time = 0
    /\ call_state = [c \in Calls |-> "new"]
    /\ req_state = [c \in Calls |-> "none"]
    /\ started = <<>>
    /\ enqueued = <<>>

\* Time passes.
Tick ==
    /\ UNCHANGED notThrVars
    /\ now < MaxTime
    /\ now' = now + 1
    /\ UNCHANGED <<th_queue, th_task, th_wake, th_running, last_request_time,
                   call_state, req_state, started, enqueued>>

\* wrapper: the first call creates the requester task; every call creates its
\* future and request, appends them to the queue and awaits the future.
ThrottledCall(c) ==
    /\ UNCHANGED notThrVars
    /\ call_state[c] = "new"
    /\ c = Len(enqueued) + 1
    /\ th_task' = IF th_task = "none" THEN "created" ELSE th_task
    /\ th_queue' = Append(th_queue, c)
    /\ call_state' = [call_state EXCEPT ![c] = "waiting"]
    /\ req_state' = [req_state EXCEPT ![c] = "created"]
    /\ enqueued' = Append(enqueued, [call |-> c, time |-> now])
    /\ UNCHANGED <<now, th_wake, th_running, last_request_time, started>>

\* The new task runs for the first time: the top of the while loop.
RequesterStart ==
    /\ UNCHANGED notThrVars
    /\ th_task = "created"
    /\ th_task' = "sleeping"
    /\ th_wake' = now + RequesterSleep(now, last_request_time)
    /\ UNCHANGED <<now, th_queue, th_running, last_request_time, call_state,
                   req_state, started, enqueued>>

\* asyncio.sleep is over and the queue is empty: continue, and sleep again.
RequesterIdle ==
    /\ UNCHANGED notThrVars
    /\ th_task = "sleeping"
    /\ now >= th_wake
    /\ th_queue = <<>>
    /\ th_wake' = now + RequesterSleep(now, last_request_time)
    /\ UNCHANGED <<now, th_queue, th_task, th_running, last_request_time,
                   call_state, req_state, started, enqueued>>

\* asyncio.sleep is over and the queue holds a call: the clock is recorded, the
\* call is dequeued and its request is awaited, that is, the wrapped function
\* starts, whatever became of the caller.
Dispatch ==
    /\ th_task = "sleeping"
    /\ now >= th_wake
    /\ th_queue # <<>>
    /\ LET c == popleft(th_queue)
       IN  /\ last_request_time' = now
           /\ th_queue' = SelectSeq(th_queue, LAMBDA e : e # c)
           /\ th_running' = c
           /\ req_state' = [req_state EXCEPT ![c] = "running"]
           /\ started' = Append(started, [call |-> c, time |-> now,
                                          cancelled |-> call_state[c] = "cancelled"])
    /\ th_task' = "running"
    /\ UNCHANGED <<now, th_wake, call_state, enqueued>>

RequesterDispatch ==
    /\ UNCHANGED notThrVars
    /\ Dispatch

\* The wrapped call returns (ok) or raises: future.set_result / set_exception.
\* On the future of a cancelled caller set_result raises InvalidStateError, the
\* except clause catches it and set_exception raises it again: the requester
\* task ends with that exception. Otherwise the loop goes to its next sleep.
RequestDone(ok) ==
    /\ UNCHANGED notThrVars
    /\ th_task = "running"
    /\ LET c == th_running
       IN  /\ req_state' = [req_state EXCEPT ![c] = "finished"]
           /\ IF call_state[c] = "cancelled"
              THEN /\ th_task' = "dead"
                   /\ UNCHANGED <<call_state, th_wake>>
              ELSE /\ th_task' = "sleeping"
                   /\ th_wake' = now + RequesterSleep(now, last_request_time)
                   /\ call_state' = [call_state EXCEPT ![c] = IF ok THEN "result" ELSE "error"]
    /\ th_running' = 0
    /\ UNCHANGED <<now, th_queue, last_request_time, started, enqueued>>

\* The caller's task is cancelled while it awaits its future: the future is
\* cancelled. Nothing touches the queue.
CancelCaller(c) ==
    /\ UNCHANGED notThrVars
    /\ call_state[c] = "waiting"
    /\ call_state' = [call_state EXCEPT ![c] = "cancelled"]
    /\ UNCHANGED <<now, th_queue, th_task, th_wake, th_running, last_request_time,
                   req_state, started, enqueued>>

NextThrottle ==
    \/ Tick
    \/ \E c \in Calls : ThrottledCall(c)
    \/ RequesterStart
    \/ RequesterIdle
    \/ RequesterDispatch
    \/ \E ok \in BOOLEAN : RequestDone(ok)
    \/ \E c \in Calls : CancelCaller(c)

\* ========================================================== the retry
\* self.status_codes
status_codes == {408, 429, 500, 502, 503, 504}

\* What one await of the wrapped function does: 200 is a normal return, a
\* positive status is a StockXRequestError carrying it, 0 is a
\* StockXRequestError whose status_code is None, -1 is an exception that is
\* not a StockXRequestError.
Outcomes == {200, 0, -1, 400, 404} \cup status_codes

\* if e.status_code not in self.status_codes: break
RetriesAnyStatus(status) == TRUE
ShouldRetry(status) == status \in status_codes

RECURSIVE Pow2(_)
Pow2(n) == IF n = 0 THEN 1 ELSE 2 * Pow2(n - 1)

\* delay(attempt) without the exponent: the same delay before every retry.
DelaysConstant(a) == { initial_delay + j : j \in 0..(initial_delay \div 10) }

\* delay(attempt): initial_delay * 2 ** attempt, plus a jitter of at most a
\* tenth of it.
Delays(a) ==
    LET d == initial_delay * Pow2(a)
    IN  { d + j : j \in 0..(d \div 10) }

\* The sleep without the cap of the remaining budget.
BackoffSleepUncapped(d, w) == d

\* sleep = min(self.delay(attempt), self.timeout - waited)
BackoffSleep(d, w) == Min(d, rt_timeout - w)

InitRetry ==
    /\ rt_pc = "idle"
    /\ attempt = 0
    /\ rt_waited = 0
    /\ rt_sleep = 0
    /\ last_error = 200
    /\ rt_outcome = 200
    /\ rt_log = <<>>
    /\ rt_calls = 0
    /\ attempt_time = None
    /\ attempt_before = None
    /\ sleep_start = None

\* wrapper is called: waited = 0 and the loop starts at attempt 0.
RetryStart ==
    /\ rt_calls' = rt_calls + 1
    /\ rt_pc' = "attempt"
    /\ attempt' = 0
    /\ rt_waited' = 0
    /\ rt_log' = <<>>
    /\ attempt_time' = now
    /\ attempt_before' = attempt_time
    /\ UNCHANGED <<rt_sleep, last_error, rt_outcome, sleep_start>>

RetryCall ==
    /\ UNCHANGED notRetryVars
    /\ rt_pc \in {"idle", "returned", "raised"}
    /\ rt_calls < MaxRetryCalls
    /\ RetryStart

\* One pass of the loop body up to its await of asyncio.sleep, or out of the
\* loop: the wrapped function is awaited and returns or raises.
Attempt(o) ==
    /\ UNCHANGED notRetryVars
    /\ rt_pc = "attempt"
    /\ LET log == Append(rt_log, [kind |-> "call", n |-> o])
       IN  CASE o = 200 ->
                  /\ rt_pc' = "returned"
                  /\ rt_outcome' = o
                  /\ rt_log' = log
                  /\ UNCHANGED <<attempt, rt_waited, rt_sleep, last_error, sleep_start>>
             [] o = -1 ->
                  /\ rt_pc' = "raised"
                  /\ rt_outcome' = o
                  /\ rt_log' = log
                  /\ UNCHANGED <<attempt, rt_waited, rt_sleep, last_error, sleep_start>>
             [] OTHER ->
                  /\ last_error' = o
                  /\ IF ~ShouldRetry(o) \/ rt_waited >= rt_timeout
                     THEN /\ rt_pc' = "raised"
                          /\ rt_outcome' = o
                          /\ rt_log' = log
                          /\ UNCHANGED <<attempt, rt_waited, rt_sleep, sleep_start>>
                     ELSE \E d \in Delays(attempt) :
                          /\ rt_sleep' = BackoffSleep(d, rt_waited)
                          /\ rt_pc' = "sleep"
                          /\ rt_log' = Append(log, [kind |-> "sleep", n |-> rt_sleep'])
                          /\ sleep_start' = now
                          /\ UNCHANGED <<attempt, rt_waited, rt_outcome>>
    /\ UNCHANGED <<rt_calls, attempt_time, attempt_before>>

\* asyncio.sleep(sleep) is over: waited += sleep, then the next attempt, or
\* raise last_error when range(max_attempts) is used up.
SleepDone ==
    /\ UNCHANGED notRetryVars
    /\ rt_pc = "sleep"
    /\ rt_waited' = rt_waited + rt_sleep
    /\ IF attempt + 1 < max_attempts
       THEN /\ attempt' = attempt + 1
            /\ rt_pc' = "attempt"
            /\ attempt_time' = now
            /\ attempt_before' = attempt_time
            /\ UNCHANGED rt_outcome
       ELSE /\ rt_pc' = "raised"
            /\ rt_outcome' = last_error
            /\ UNCHANGED <<attempt, attempt_time, attempt_before>>
    /\ UNCHANGED <<rt_sleep, last_error, rt_log, rt_calls, sleep_start>>

NextRetry ==
    \/ RetryCall
    \/ \E o \in Outcomes : Attempt(o)
    \/ SleepDone

\* ============================== StockXAPIClient._do: throttle(retry(_do))
\* @throttle(seconds=1) is applied to the function @retry(...) returns: the
\* request the requester awaits is one whole call of the retry wrapper.

\* What the wrapped _do does in this composition: a response, a transient
\* failure, or a failure that is not retried.
ClientOutcomes == {200, 503, 404}

\* result = await request is over when the retry wrapper returned or raised.
RetryFinishedOrSleeping == rt_pc \in {"returned", "raised", "sleep"}
RetryFinished == rt_pc \in {"returned", "raised"}

\* A caller awaits self._do(...).
ClientCall(c) ==
    /\ c <= NClientCalls
    /\ ThrottledCall(c)

\* The task of a caller of _do is cancelled.
ClientCancel(c) ==
    /\ Cardinality({d \in Calls : call_state[d] = "cancelled"}) < MaxCancels
    /\ CancelCaller(c)

\* The requester dequeues a call and awaits its request: the retry wrapper's
\* body starts.
ClientDispatch ==
    /\ UNCHANGED notThrRetryVars
    /\ Dispatch
    /\ RetryStart

\* One attempt of the request the requester is awaiting.
ClientAttempt(o) ==
    /\ th_task = "running"
    /\ Attempt(o)

\* The backoff sleep of that request is over. With the client's parameters
\* (seconds=1, initial_delay=2, timeout=60, max_attempts=5) every backoff
\* sleep is longer than the throttle interval.
ClientSleepDone ==
    /\ th_task = "running"
    /\ now >= sleep_start + Seconds
    /\ SleepDone

\* The awaited request is over: its result or error goes to the caller.
ClientRequestDone ==
    /\ RetryFinished
    /\ RequestDone(rt_pc = "returned")

NextClientDo ==
    \/ Tick
    \/ \E c \in Calls : ClientCall(c)
    \/ RequesterStart
    \/ RequesterIdle
    \/ ClientDispatch
    \/ \E o \in ClientOutcomes : ClientAttempt(o)
    \/ ClientSleepDone
    \/ ClientRequestDone
    \/ \E c \in Calls : ClientCancel(c)

\* ============================================================ the cache
Keys == 1..NKeys
Values == 0..MaxValue
CacheCallers == 1..NCacheCallers

\* bool(value): None, 0, '' and empty containers are falsy.
Truthy(v) == v # 0

\* not self.ttl: true for None and for 0.
TtlUnset(t) == t = None \/ t = 0

\* self._cache.get(key, (None, None)): the position of the key, 0 if absent.
CacheIndex(c, k) ==
    IF \E j \in 1..Len(c) : c[j].key = k
    THEN CHOOSE j \in 1..Len(c) : c[j].key = k
    ELSE 0

\* if cached_value and (not self.ttl or now - timestamp <= self.ttl)
CacheHit(c, k, t, n) ==
    LET j == CacheIndex(c, k)
    IN  /\ j # 0
        /\ Truthy(c[j].value)
        /\ (TtlUnset(t) \/ n - c[j].ts <= t)

\* self._cache[key] = (value, now): a key already present keeps its place in
\* the OrderedDict, a new key goes to the end.
CacheStore(c, k, v, n, sq) ==
    LET j == CacheIndex(c, k)
        e == [key |-> k, value |-> v, ts |-> n, seq |-> sq]
    IN  IF j # 0 THEN [c EXCEPT ![j] = e] ELSE Append(c, e)

InitCache ==
    /\ ttl \in {None} \cup (0..MaxTtl)
    /\ cache = <<>>
    /\ cache_clock = 0
    /\ ca_call = [c \in CacheCallers |->
                    [pc |-> "idle", key |-> 0, now |-> 0, value |-> 0,
                     live |-> FALSE, expired |-> FALSE, upstream |-> FALSE]]
    /\ ca_ncalls = 0
    /\ ca_nstores = 0
    /\ ca_evict = [victim |-> 0, kept |-> {}]

\* Time passes.
CacheTick ==
    /\ UNCHANGED notCacheVars
    /\ cache_clock < MaxCacheTime
    /\ cache_clock' = cache_clock + 1
    /\ UNCHANGED <<ttl, cache, ca_call, ca_ncalls, ca_nstores, ca_evict>>

\* wrapper is called with key k: up to the return of the cached value, or up
\* to the await of the underlying function. live and expired record what the
\* entry of the key was when the call started: present and within the TTL (or
\* no TTL), present and older than the TTL.
CacheCall(c, k) ==
    /\ UNCHANGED notCacheVars
    /\ ca_call[c].pc \in {"idle", "returned", "raised"}
    /\ ca_ncalls < MaxCacheCalls
    /\ ca_ncalls' = ca_ncalls + 1
    /\ LET j == CacheIndex(cache, k)
           live == j # 0 /\ (ttl = None \/ cache_clock - cache[j].ts <= ttl)
           expired == j # 0 /\ ttl # None /\ cache_clock - cache[j].ts > ttl
       IN  ca_call' = [ca_call EXCEPT ![c] =
              IF CacheHit(cache, k, ttl, cache_clock)
              THEN [pc |-> "returned", key |-> k, now |-> cache_clock,
                    value |-> cache[j].value, live |-> live, expired |-> expired,
                    upstream |-> FALSE]
              ELSE [pc |-> "await", key |-> k, now |-> cache_clock, value |-> 0,
                    live |-> live, expired |-> expired, upstream |-> TRUE]]
    /\ UNCHANGED <<ttl, cache, cache_clock, ca_nstores, ca_evict>>

\* The underlying function returns v: the value is stored with the now of the
\* call's start, the first entry is popped if the cache is over maxsize.
CacheUpstreamReturns(c, v) ==
    /\ UNCHANGED notCacheVars
    /\ ca_call[c].pc = "await"
    /\ ca_nstores' = ca_nstores + 1
    /\ LET stored == CacheStore(cache, ca_call[c].key, v, ca_call[c].now, ca_nstores + 1)
       IN  IF Len(stored) > maxsize
           THEN /\ cache' = Tail(stored)
                /\ ca_evict' = [victim |-> stored[1].seq,
                                kept |-> {stored[j].seq : j \in 2..Len(stored)}]
           ELSE /\ cache' = stored
                /\ UNCHANGED ca_evict
    /\ ca_call' = [ca_call EXCEPT ![c].pc = "returned", ![c].value = v]
    /\ UNCHANGED <<ttl, cache_clock, ca_ncalls>>

\* The underlying function raises: nothing is stored.
CacheUpstreamRaises(c) ==
    /\ UNCHANGED notCacheVars
    /\ ca_call[c].pc = "await"
    /\ ca_call' = [ca_call EXCEPT ![c].pc = "raised"]
    /\ UNCHANGED <<ttl, cache, cache_clock, ca_ncalls, ca_nstores, ca_evict>>

NextCache ==
    \/ CacheTick
    \/ \E c \in CacheCallers, k \in Keys : CacheCall(c, k)
    \/ \E c \in CacheCallers, v \in Values : CacheUpstreamReturns(c, v)
    \/ \E c \in CacheCallers : CacheUpstreamRaises(c)

\* ============================================ StockXAPIClient lifecycle
InitClient ==
    /\ cl_session = "none"
    /\ cl_refresh_task = "none"
    /\ cl_auth_headers = 0
    /\ cl_server_token = 0
    /\ cl_refreshes = 0
    /\ cl_closed = FALSE
    /\ cl_log = <<>>

\* initialize(): a session and the refresh task are created, once.
Initialize ==
    /\ UNCHANGED notClientVars
    /\ cl_session = "none"
    /\ cl_refresh_task = "none"
    /\ cl_session' = "open"
    /\ cl_refresh_task' = "requesting"
    /\ cl_refreshes' = 1
    /\ UNCHANGED <<cl_auth_headers, cl_server_token, cl_closed, cl_log>>

\* _refresh_token: the token request answers with a new access token, the
\* headers are replaced and the task sleeps REFRESH_TOKEN_SLEEP.
RefreshSucceeds ==
    /\ UNCHANGED notClientVars
    /\ cl_refresh_task = "requesting"
    /\ cl_session = "open"
    /\ cl_server_token' = cl_server_token + 1
    /\ cl_auth_headers' = cl_server_token + 1
    /\ cl_refresh_task' = "sleeping"
    /\ UNCHANGED <<cl_session, cl_refreshes, cl_closed, cl_log>>

\* _refresh_token: the token request fails (a ClientError, a payload without
\* 'access_token'): the exception ends the task, nothing else changes.
RefreshFails ==
    /\ UNCHANGED notClientVars
    /\ cl_refresh_task = "requesting"
    /\ cl_refresh_task' = "dead"
    /\ UNCHANGED <<cl_session, cl_auth_headers, cl_server_token, cl_refreshes,
                   cl_closed, cl_log>>

\* asyncio.sleep(REFRESH_TOKEN_SLEEP) is over: the old token has expired at
\* the marketplace and the loop requests a new one.
RefreshWake ==
    /\ UNCHANGED notClientVars
    /\ cl_refresh_task = "sleeping"
    /\ cl_refreshes < MaxRefreshes
    /\ cl_refreshes' = cl_refreshes + 1
    /\ cl_refresh_task' = "requesting"
    /\ cl_server_token' = cl_server_token + 1
    /\ UNCHANGED <<cl_session, cl_auth_headers, cl_closed, cl_log>>

\* close(): the session is closed and the refresh task, if there is one and
\* it is not over, is cancelled. _auth_headers is not touched.
Close ==
    /\ UNCHANGED notClientVars
    /\ ~cl_closed
    /\ cl_closed' = TRUE
    /\ cl_session' = IF cl_session = "none" THEN "none" ELSE "closed"
    /\ cl_refresh_task' = IF cl_refresh_task \in {"requesting", "sleeping"}
                          THEN "cancelled" ELSE cl_refresh_task
    /\ UNCHANGED <<cl_auth_headers, cl_server_token, cl_refreshes, cl_log>>

\* What the body of _do does: StockXNotInitialized without headers; with
\* headers the request goes to self._session, which raises RuntimeError when
\* it is closed; the marketplace answers 401 to a token it no longer accepts.
DoOutcome ==
    IF cl_auth_headers = 0 THEN "StockXNotInitialized"
    ELSE IF cl_session = "closed" THEN "RuntimeError"
    ELSE IF cl_auth_headers = cl_server_token THEN "Response"
    ELSE "StockXUnauthorized"

\* get / put / post / patch / delete: one request through _do.
Request ==
    /\ UNCHANGED notClientVars
    /\ Len(cl_log) < MaxRequests
    /\ cl_log' = Append(cl_log, [outcome |-> DoOutcome,
                                 closed |-> cl_closed,
                                 task |-> cl_refresh_task,
                                 token |-> cl_auth_headers])
    /\ UNCHANGED <<cl_session, cl_refresh_task, cl_auth_headers, cl_server_token,
                   cl_refreshes, cl_closed>>

NextClient ==
    \/ Initialize
    \/ RefreshSucceeds
    \/ RefreshFails
    \/ RefreshWake
    \/ Close
    \/ Request

\* ================================================ the create inputs
\* An item passed to a create call: an Item for publish (nothing listed), a
\* ListedItem for the increase path (listed is len(listing_ids), less than
\* quantity).
PubVariants == 1..NPubVariants
PubItemsOf(path) ==
    { [variant_id |-> v, price |-> p, quantity |-> q, listed |-> n] :
        v \in PubVariants, p \in Prices, q \in 1..MaxPubQty,
        n \in IF path = "publish" THEN {0} ELSE 0..(MaxPubQty - 1) }

\* attrgetter('variant_id', 'price') as one number, ordered as the pair is.
PubKey(it) == (it.variant_id - 1) * MaxPrice + it.price
MaxPubKey == NPubVariants * MaxPrice

\* sorted(iterable, key=...): the positions of the items, stably sorted.
RECURSIVE PubSortedFrom(_, _)
PubSortedFrom(items, k) ==
    IF k > MaxPubKey THEN <<>>
    ELSE SelectSeq([j \in 1..Len(items) |-> j], LAMBDA j : PubKey(items[j]) = k)
            \o PubSortedFrom(items, k + 1)

\* reduce_func that keeps the item's own attribute.
PubKeepOwn(accumulated_attr, item_attr) == item_attr

\* reduce_func: accumulated_attr + item_attr
PubAdd(accumulated_attr, item_attr) == accumulated_attr + item_attr

\* reduce(reduce_func, group) for every group of the sorted list: the running
\* total of each summed attribute is set on each item after the first of its
\* group; listing_ids is summed on the increase path only.
RECURSIVE PubReduceFrom(_, _, _, _)
PubReduceFrom(s, items, k, ids) ==
    IF k > Len(s) THEN items
    ELSE IF PubKey(items[s[k]]) # PubKey(items[s[k - 1]])
         THEN PubReduceFrom(s, items, k + 1, ids)
         ELSE PubReduceFrom(s,
                  [items EXCEPT
                      ![s[k]].quantity = PubAdd(items[s[k - 1]].quantity, @),
                      ![s[k]].listed = IF ids THEN PubAdd(items[s[k - 1]].listed, @) ELSE @],
                  k + 1, ids)

\* The positions group_and_sum yields: the last item of each group.
PubYielded(s, items) ==
    SelectSeq(s, LAMBDA i :
        \E k \in 1..Len(s) :
            /\ s[k] = i
            /\ (k = Len(s) \/ PubKey(items[s[k + 1]]) # PubKey(items[i])))

\* itertools.batched(inputs, batch_size)
RECURSIVE batched(_, _)
batched(inputs, n) ==
    IF Len(inputs) = 0 THEN <<>>
    ELSE IF Len(inputs) <= n THEN <<inputs>>
    ELSE <<SubSeq(inputs, 1, n)>> \o batched(SubSeq(inputs, n + 1, Len(inputs)), n)

\* create_listings_inputs: quantity=item.quantity of every yielded item.
create_listings_inputs(items, batch_size) ==
    LET s     == PubSortedFrom(items, 1)
        after == PubReduceFrom(s, items, 2, FALSE)
        y     == PubYielded(s, items)
    IN  [after   |-> after,
         batches |-> batched([j \in 1..Len(y) |->
                        [variant_id |-> after[y[j]].variant_id,
                         amount     |-> after[y[j]].price,
                         quantity   |-> after[y[j]].quantity]], batch_size)]

\* sync_listings_inputs: quantity=item.quantity_to_sync() of every yielded item.
SyncListingsInputs(items, batch_size) ==
    LET s     == PubSortedFrom(items, 1)
        after == PubReduceFrom(s, items, 2, TRUE)
        y     == PubYielded(s, items)
    IN  [after   |-> after,
         batches |-> batched([j \in 1..Len(y) |->
                        [variant_id |-> after[y[j]].variant_id,
                         amount     |-> after[y[j]].price,
                         quantity   |-> after[y[j]].quantity - after[y[j]].listed]],
                        batch_size)]

InitPub ==
    /\ pub_path \in {"publish", "increase"}
    /\ pub_items \in UNION { [1..n -> PubItemsOf(pub_path)] : n \in 1..MaxPubItems }
    /\ \A j \in 1..Len(pub_items) : pub_items[j].listed < pub_items[j].quantity
    /\ pub_pc = "new"
    /\ pub_after = pub_items
    /\ pub_batches = <<>>

\* A create call for one item, for the specifications of the other components.
InitPubOne ==
    /\ pub_path = "publish"
    /\ pub_items = <<[variant_id |-> 1, price |-> 1, quantity |-> 1, listed |-> 0]>>
    /\ pub_pc = "new"
    /\ pub_after = pub_items
    /\ pub_batches = <<>>

\* publish_listings -> _create_listings with create_listings_inputs: the
\* batches are built and submitted one after the other.
PublishListings ==
    /\ UNCHANGED notPubVars
    /\ pub_pc = "new"
    /\ pub_path = "publish"
    /\ LET r == create_listings_inputs(pub_items, PubBatchSize)
       IN  /\ pub_after' = r.after
           /\ pub_batches' = r.batches
    /\ pub_pc' = "submitted"
    /\ UNCHANGED <<pub_path, pub_items>>

\* increase_listings -> _create_listings with sync_listings_inputs.
IncreaseListings ==
    /\ UNCHANGED notPubVars
    /\ pub_pc = "new"
    /\ pub_path = "increase"
    /\ LET r == SyncListingsInputs(pub_items, PubBatchSize)
       IN  /\ pub_after' = r.after
           /\ pub_batches' = r.batches
    /\ pub_pc' = "submitted"
    /\ UNCHANGED <<pub_path, pub_items>>

NextPub ==
    \/ PublishListings
    \/ IncreaseListings

\* ------------------------------------------- UpdateResult.consolidate
\* Bounds of the consolidate calls explored.
MaxResults == 2
MaxOccurrences == 2

\* The items the results are about: None and one ListedItem.
ConItems == {0, 1}
\* The listing ids the results name.
ConIds == {1, 2}
\* The error messages of failed batch items.
ConMessages == {"out of stock", "invalid price"}
ConStages == {"none", "created", "updated", "deleted", "failed"}

\* A result as from_batch_create, from_batch_update and from_batch_delete
\* build it: every listing id in at most one of its tuples.
ConIdResults ==
    { UpdateResult(item,
                   {id \in ConIds : st[id] = "created"},
                   {id \in ConIds : st[id] = "updated"},
                   {id \in ConIds : st[id] = "deleted"},
                   {id \in ConIds : st[id] = "failed"},
                   <<>>) : item \in ConItems, st \in [ConIds -> ConStages] }

\* A result that carries one ErrorDetail.
ConErrResults ==
    { UpdateResult(item, {}, {}, {}, {}, <<ErrorDetail(m, o, 0)>>) :
        item \in ConItems, m \in ConMessages, o \in 1..MaxOccurrences }

InitCon ==
    /\ con_results \in UNION { [1..n -> ConIdResults \cup ConErrResults] :
                                n \in 1..MaxResults }
    /\ con_pc = "new"
    /\ con_out = {}

\* One empty result, for the specifications of the other components.
InitConOne ==
    /\ con_results = <<UpdateResult(0, {}, {}, {}, {}, <<>>)>>
    /\ con_pc = "new"
    /\ con_out = {}

\* UpdateResult.consolidate(results), read to its end by the caller.
Consolidate ==
    /\ UNCHANGED notConVars
    /\ con_pc = "new"
    /\ con_out' = consolidate(con_results)
    /\ con_pc' = "done"
    /\ UNCHANGED con_results

NextConsolidate == Consolidate

\* ------------------------------------------------------------ paginators
\* Bounds of the paginated reads explored.
MaxAvail == 3
MaxPageSize == 2
MaxLimit == 3
MaxGets == 5

\* What response.data.get('nextCursor') gives for a missing key: None.
Absent == "<None>"
\* params without a 'cursor' key.
Unset == "<unset>"

\* check(count, limit)
check(count, limit) == IF limit # None THEN count < limit ELSE TRUE

\* str(v) of a cursor: str(None) is the text None, a text stays as it is.
str(v) == IF v = Absent THEN "None" ELSE v

\* ceil(count / page_size) or 1
FirstReversePage(count, page_size) ==
    LET n == (count + page_size - 1) \div page_size
    IN  IF n = 0 THEN 1 ELSE n

\* reversed(results)
reversed(results) == [j \in 1..Len(results) |-> results[Len(results) + 1 - j]]

\* The server holds the items 1..pg_total and serves them in that order,
\* pg_page_size to a page: the results of page p.
PageItems(p) ==
    LET n == Max(0, Min(pg_page_size, pg_total - (p - 1) * pg_page_size))
    IN  [j \in 1..n |-> (p - 1) * pg_page_size + j]

\* The server's hasNextPage of page p.
ServerHasNextPage(p) == p * pg_page_size < pg_total

\* The server's nextCursor of page p: the token of the page after it, and on
\* its last page an empty text or no cursor at all.
ServerNextCursor(p) ==
    IF p * pg_page_size < pg_total THEN ToString(p + 1) ELSE pg_last_cursor

\* The page a cursor token names; no cursor is the first page.
CursorPage(c) ==
    IF c = Unset THEN 1 ELSE CHOOSE p \in 2..(pg_total + 1) : ToString(p) = c

\* One client.get, as the history keeps it: the pageNumber (0: none) and
\* cursor sent, count when it was sent and the nextCursor of its response.
Get(page_number, cursor, count, next_cursor) ==
    [pageNumber |-> page_number, cursor |-> cursor, count |-> count,
     nextCursor |-> next_cursor]

InitPg ==
    /\ pg_mode \in {"forward", "reverse", "cursor"}
    /\ pg_total \in 0..MaxAvail
    /\ pg_page_size \in 1..MaxPageSize
    /\ pg_limit \in {None} \cup (0..MaxLimit)
    /\ pg_last_cursor \in (IF pg_mode = "cursor" THEN {"", Absent} ELSE {Absent})
    /\ pg_pc = (IF pg_mode = "cursor" THEN "loop" ELSE "start")
    /\ pg_page_number = 0
    /\ pg_cursor = Unset
    /\ pg_next_cursor = Unset
    /\ pg_has_next_page = FALSE
    /\ pg_results = <<>>
    /\ pg_count = 0
    /\ pg_yielded = <<>>
    /\ pg_requests = <<>>

\* A forward read of an empty server, for the specifications of the other
\* components.
InitPgOne ==
    /\ pg_mode = "forward"
    /\ pg_total = 0
    /\ pg_page_size = 1
    /\ pg_limit = None
    /\ pg_last_cursor = Absent
    /\ pg_pc = "start"
    /\ pg_page_number = 0
    /\ pg_cursor = Unset
    /\ pg_next_cursor = Unset
    /\ pg_has_next_page = FALSE
    /\ pg_results = <<>>
    /\ pg_count = 0
    /\ pg_yielded = <<>>
    /\ pg_requests = <<>>

\* _page up to its loop: in reverse mode a first request, without pageNumber,
\* for count.
PageStart ==
    /\ UNCHANGED notPgVars
    /\ pg_pc = "start"
    /\ IF pg_mode = "reverse"
       THEN /\ pg_requests' = Append(pg_requests, Get(0, Unset, 0, Absent))
            /\ pg_page_number' = FirstReversePage(pg_total, pg_page_size)
       ELSE /\ pg_page_number' = 1
            /\ UNCHANGED pg_requests
    /\ pg_pc' = "loop"
    /\ UNCHANGED <<pg_mode, pg_total, pg_page_size, pg_limit, pg_last_cursor,
                   pg_cursor, pg_next_cursor, pg_has_next_page, pg_results,
                   pg_count, pg_yielded>>

\* _page: the loop condition and, when it holds, the request of page_number.
PageRequest ==
    /\ UNCHANGED notPgVars
    /\ pg_pc = "loop"
    /\ pg_mode # "cursor"
    /\ IF ~check(pg_count, pg_limit)
       THEN /\ pg_pc' = "done"
            /\ UNCHANGED <<pg_requests, pg_has_next_page, pg_results>>
       ELSE /\ pg_requests' = Append(pg_requests,
                                  Get(pg_page_number, Unset, pg_count, Absent))
            /\ pg_has_next_page' = (IF pg_mode = "reverse" THEN pg_page_number > 1
                                    ELSE ServerHasNextPage(pg_page_number))
            /\ pg_results' = (IF pg_mode = "reverse"
                              THEN reversed(PageItems(pg_page_number))
                              ELSE PageItems(pg_page_number))
            /\ pg_pc' = "page"
    /\ UNCHANGED <<pg_mode, pg_total, pg_page_size, pg_limit, pg_last_cursor,
                   pg_page_number, pg_cursor, pg_next_cursor, pg_count, pg_yielded>>

\* _page: one turn of the for loop, which ends at the limit.
PageYield ==
    /\ UNCHANGED notPgVars
    /\ pg_pc = "page"
    /\ pg_mode # "cursor"
    /\ pg_results # <<>>
    /\ pg_yielded' = Append(pg_yielded, Head(pg_results))
    /\ pg_count' = pg_count + 1
    /\ pg_results' = (IF check(pg_count', pg_limit) THEN Tail(pg_results) ELSE <<>>)
    /\ UNCHANGED <<pg_mode, pg_total, pg_page_size, pg_limit, pg_last_cursor, pg_pc,
                   pg_page_number, pg_cursor, pg_next_cursor, pg_has_next_page,
                   pg_requests>>

\* _page: after the for loop, stop or step to the next page.
PageAfter ==
    /\ UNCHANGED notPgVars
    /\ pg_pc = "page"
    /\ pg_mode # "cursor"
    /\ pg_results = <<>>
    /\ IF ~pg_has_next_page
       THEN /\ pg_pc' = "done"
            /\ UNCHANGED pg_page_number
       ELSE /\ pg_page_number' = (IF pg_mode = "reverse" THEN pg_page_number - 1
                                  ELSE pg_page_number + 1)
            /\ pg_pc' = "loop"
    /\ UNCHANGED <<pg_mode, pg_total, pg_page_size, pg_limit, pg_last_cursor,
                   pg_cursor, pg_next_cursor, pg_has_next_page, pg_results,
                   pg_count, pg_yielded, pg_requests>>

\* _page_cursor: the loop condition and, when it holds, the request with the
\* cursor of params. A cursor the server never issued is rejected by it, or
\* ignored and answered with the first page.
CursorRequest ==
    /\ UNCHANGED notPgVars
    /\ pg_pc = "loop"
    /\ pg_mode = "cursor"
    /\ Len(pg_requests) < MaxGets
    /\ IF ~check(pg_count, pg_limit)
       THEN /\ pg_pc' = "done"
            /\ UNCHANGED <<pg_requests, pg_next_cursor, pg_results>>
       ELSE \E answer \in {"page", "rejected"} :
              LET known == pg_cursor = Unset
                             \/ \E p \in 2..(pg_total + 1) : ToString(p) = pg_cursor
                  page  == IF known THEN CursorPage(pg_cursor) ELSE 1
              IN  IF ~known /\ answer = "rejected"
                  THEN /\ pg_requests' = Append(pg_requests,
                                  Get(0, pg_cursor, pg_count, Absent))
                       /\ pg_pc' = "raised"
                       /\ UNCHANGED <<pg_next_cursor, pg_results>>
                  ELSE /\ answer = "page" \/ ~known
                       /\ pg_requests' = Append(pg_requests,
                                  Get(0, pg_cursor, pg_count, ServerNextCursor(page)))
                       /\ pg_next_cursor' = str(ServerNextCursor(page))
                       /\ pg_results' = PageItems(page)
                       /\ pg_pc' = "page"
    /\ UNCHANGED <<pg_mode, pg_total, pg_page_size, pg_limit, pg_last_cursor,
                   pg_page_number, pg_cursor, pg_has_next_page, pg_count, pg_yielded>>

\* _page_cursor: one turn of the for loop, which ends at the limit.
CursorYield ==
    /\ UNCHANGED notPgVars
    /\ pg_pc = "page"
    /\ pg_mode = "cursor"
    /\ pg_results # <<>>
    /\ pg_yielded' = Append(pg_yielded, Head(pg_results))
    /\ pg_count' = pg_count + 1
    /\ pg_results' = (IF check(pg_count', pg_limit) THEN Tail(pg_results) ELSE <<>>)
    /\ UNCHANGED <<pg_mode, pg_total, pg_page_size, pg_limit, pg_last_cursor, pg_pc,
                   pg_page_number, pg_cursor, pg_next_cursor, pg_has_next_page,
                   pg_requests>>

\* _page_cursor: after the for loop, stop at a next_cursor that is an empty
\* text, else put it in params.
CursorAfter ==
    /\ UNCHANGED notPgVars
    /\ pg_pc = "page"
    /\ pg_mode = "cursor"
    /\ pg_results = <<>>
    /\ IF pg_next_cursor = ""
       THEN /\ pg_pc' = "done"
            /\ UNCHANGED pg_cursor
       ELSE /\ pg_cursor' = pg_next_cursor
            /\ pg_pc' = "loop"
    /\ UNCHANGED <<pg_mode, pg_total, pg_page_size, pg_limit, pg_last_cursor,
                   pg_page_number, pg_next_cursor, pg_has_next_page, pg_results,
                   pg_count, pg_yielded, pg_requests>>

NextPaginate ==
    \/ PageStart
    \/ PageRequest
    \/ PageYield
    \/ PageAfter
    \/ CursorRequest
    \/ CursorYield
    \/ CursorAfter

\* ------------------------------------------------ ListedItem setters, alone
\* Two inventories: a ListedItem belongs to the Inventory given to its
\* constructor (self._inventory).
Inventories == {1, 2}
Owner(i) == ((i - 1) % 2) + 1

InitSetters ==
    /\ li_price = [i \in Items |-> ((i - 1) % MaxPrice) + 1]
    /\ li_quantity = [i \in Items |-> InitLen(i)]
    /\ li_price_updates = [v \in Inventories |-> {}]
    /\ li_quantity_updates = [v \in Inventories |-> {}]
    /\ li_last = [attr |-> "none", item |-> 0, value |-> 0,
                  price |-> li_price, quantity |-> li_quantity,
                  price_updates |-> li_price_updates,
                  quantity_updates |-> li_quantity_updates]
    /\ li_writes = 0

\* What a write found: the value written and the state before it.
Found(attr, i, v) ==
    [attr |-> attr, item |-> i, value |-> v,
     price |-> li_price, quantity |-> li_quantity,
     price_updates |-> li_price_updates,
     quantity_updates |-> li_quantity_updates]

\* li.price = v: the price setter and Inventory.register_price_change.
WritePrice(i, v) ==
    /\ UNCHANGED notLiVars
    /\ li_writes < MaxWrites
    /\ li_writes' = li_writes + 1
    /\ li_last' = Found("price", i, v)
    /\ IF SetterStores(v, li_price[i])
       THEN /\ li_price' = [li_price EXCEPT ![i] = v]
            /\ li_price_updates' = [li_price_updates EXCEPT ![Owner(i)] = @ \cup {i}]
       ELSE UNCHANGED <<li_price, li_price_updates>>
    /\ UNCHANGED <<li_quantity, li_quantity_updates>>

\* li.quantity = v: the quantity setter and Inventory.register_quantity_change.
WriteQuantity(i, v) ==
    /\ UNCHANGED notLiVars
    /\ li_writes < MaxWrites
    /\ li_writes' = li_writes + 1
    /\ li_last' = Found("quantity", i, v)
    /\ IF SetterStores(v, li_quantity[i])
       THEN /\ li_quantity' = [li_quantity EXCEPT ![i] = v]
            /\ li_quantity_updates' = [li_quantity_updates EXCEPT ![Owner(i)] = @ \cup {i}]
       ELSE UNCHANGED <<li_quantity, li_quantity_updates>>
    /\ UNCHANGED <<li_price, li_price_updates>>

NextSetters ==
    \/ \E i \in Items, v \in Prices : WritePrice(i, v)
    \/ \E i \in Items, v \in 0..MaxQty : WriteQuantity(i, v)

\* ------------------------------------------------ Inventory.change_price
\* An Amount: a number, or a function of the item, kept as its table. The
\* function _beat_market_value passes is one of these: the market value of the
\* item less the item's beat_by.
Scalar(v) == [callable |-> FALSE, value |-> v, table |-> <<>>]
Function(t) == [callable |-> TRUE, value |-> 0, table |-> t]
Amounts == {Scalar(v) : v \in Prices} \cup {Function(t) : t \in [Items -> Prices]}

\* computed_value(input, value): a callable is called with the input, anything
\* else is the value.
computed_value(input, value) ==
    IF value.callable THEN value.table[input] ELSE value.value

InitCp ==
    /\ cp_items \in Perms(Items)
    /\ cp_price \in [Items -> Prices]
    /\ cp_fn \in Amounts
    /\ cp_condition \in SUBSET Items
    /\ cp_new_price = cp_fn
    /\ cp_k = 0
    /\ cp_items_to_update = <<>>
    /\ cp_price_updates = {}
    /\ cp_assigned = [i \in Items |-> None]
    /\ cp_pc = "loop"

\* A call for the items in their order with the price 1 and every item meeting
\* the condition, for the specifications of the other components.
InitCpOne ==
    /\ cp_items = [j \in 1..NItems |-> j]
    /\ cp_price = [i \in Items |-> 1]
    /\ cp_fn = Scalar(1)
    /\ cp_condition = Items
    /\ cp_new_price = cp_fn
    /\ cp_k = 0
    /\ cp_items_to_update = <<>>
    /\ cp_price_updates = {}
    /\ cp_assigned = [i \in Items |-> None]
    /\ cp_pc = "loop"

\* One turn of the for loop of change_price: new_price = await
\* computed_value(item, new_price) assigns to the parameter itself.
ChangePriceItem ==
    /\ UNCHANGED notCpVars
    /\ cp_pc = "loop"
    /\ cp_k < Len(cp_items)
    /\ cp_k' = cp_k + 1
    /\ LET item == cp_items[cp_k + 1]
       IN  IF item \in cp_condition
           THEN LET new == computed_value(item, cp_new_price)
                IN  /\ cp_new_price' = Scalar(new)
                    /\ IF new # cp_price[item]
                       THEN /\ cp_price' = [cp_price EXCEPT ![item] = new]
                            /\ cp_price_updates' = cp_price_updates \cup {item}
                            /\ cp_items_to_update' = Append(cp_items_to_update, item)
                            /\ cp_assigned' = [cp_assigned EXCEPT ![item] = new]
                       ELSE UNCHANGED <<cp_price, cp_price_updates, cp_items_to_update,
                                        cp_assigned>>
           ELSE UNCHANGED <<cp_new_price, cp_price, cp_price_updates,
                            cp_items_to_update, cp_assigned>>
    /\ UNCHANGED <<cp_items, cp_fn, cp_condition, cp_pc>>

\* After the loop: the items changed leave _price_updates and update_listings
\* is awaited, which raises (update_listings_error).
ChangePriceSync ==
    /\ UNCHANGED notCpVars
    /\ cp_pc = "loop"
    /\ cp_k = Len(cp_items)
    /\ cp_price_updates' = cp_price_updates \ Range(cp_items_to_update)
    /\ cp_pc' = "raised"
    /\ UNCHANGED <<cp_items, cp_price, cp_fn, cp_condition, cp_new_price, cp_k,
                   cp_items_to_update, cp_assigned>>

NextChangePrice ==
    \/ ChangePriceItem
    \/ ChangePriceSync

\* ------------------------------------------------ mock_listing (ext/mock.py)
\* OperationStatus of models/sales.py.
OperationStatus == {"PENDING", "SUCCEEDED", "FAILED"}

\* The listing ids the service hands out.
ListingIds == {1, 2}

\* get_listing_operation calls counted; the count stays at MaxPolls once
\* reached, the polling itself has no bound.
MaxPolls == 4

InitMock ==
    /\ mk_pc = "create"
    /\ mk_amount \in Prices
    /\ mk_listing_id = None
    /\ mk_status = "PENDING"
    /\ mk_polls = 0
    /\ mk_acquired = FALSE
    /\ mk_deleted = <<>>
    /\ mk_pending = "none"
    /\ mk_raised = "none"
    /\ mk_warnings = 0

\* One use of mock_listing with the amount 1, not yet entered, for the
\* specifications of the other components.
InitMkOne ==
    /\ mk_pc = "create"
    /\ mk_amount = 1
    /\ mk_listing_id = None
    /\ mk_status = "PENDING"
    /\ mk_polls = 0
    /\ mk_acquired = FALSE
    /\ mk_deleted = <<>>
    /\ mk_pending = "none"
    /\ mk_raised = "none"
    /\ mk_warnings = 0

\* try: ... finally: the finally block runs however the try block is left.
FinallyOnReturnOnly(pending) == pending = "none"
FinallyRuns(pending) == TRUE

\* search_catalog, get_all_product_variants and create_listing: any of the
\* requests raises, or create_listing returns an Operation for a new listing.
MockCreate ==
    /\ UNCHANGED notMkVars
    /\ mk_pc = "create"
    /\ \/ /\ mk_pc' = "done"
          /\ mk_raised' = "request_error"
          /\ UNCHANGED <<mk_listing_id, mk_status>>
       \/ /\ \E id \in ListingIds, s \in OperationStatus :
                /\ mk_listing_id' = id
                /\ mk_status' = s
          /\ mk_pc' = "create_poll"
          /\ UNCHANGED mk_raised
    /\ UNCHANGED <<mk_amount, mk_polls, mk_acquired, mk_deleted, mk_pending, mk_warnings>>

\* operation_succeeded(create), one turn of its while loop: the request for
\* the operation raises or returns the operation with its status of the moment.
MockCreatePoll ==
    /\ UNCHANGED notMkVars
    /\ mk_pc = "create_poll"
    /\ mk_status = "PENDING"
    /\ \/ /\ mk_pc' = "done"
          /\ mk_raised' = "request_error"
          /\ UNCHANGED mk_status
       \/ /\ \E s \in OperationStatus : mk_status' = s
          /\ UNCHANGED <<mk_pc, mk_raised>>
    /\ mk_polls' = Min(mk_polls + 1, MaxPolls)
    /\ UNCHANGED <<mk_amount, mk_listing_id, mk_acquired, mk_deleted, mk_pending,
                   mk_warnings>>

\* operation_succeeded(create) returns: False raises RuntimeError, True enters
\* the try block.
MockCreated ==
    /\ UNCHANGED notMkVars
    /\ mk_pc = "create_poll"
    /\ mk_status # "PENDING"
    /\ IF mk_status = "FAILED"
       THEN /\ mk_pc' = "done"
            /\ mk_raised' = "RuntimeError"
            /\ UNCHANGED mk_acquired
       ELSE /\ mk_pc' = "get_listing"
            /\ mk_acquired' = TRUE
            /\ UNCHANGED mk_raised
    /\ mk_polls' = 0
    /\ UNCHANGED <<mk_amount, mk_listing_id, mk_status, mk_deleted, mk_pending,
                   mk_warnings>>

\* Leaving the try block with the exception e on its way ("none": the body
\* ended): the finally block comes next.
LeaveTry(e) ==
    /\ mk_pending' = e
    /\ IF FinallyRuns(e)
       THEN /\ mk_pc' = "delete"
            /\ UNCHANGED mk_raised
       ELSE /\ mk_pc' = "done"
            /\ mk_raised' = e

\* listing = await get_listing(create.listing_id): raises, or the listing is
\* yielded to the body.
MockGetListing ==
    /\ UNCHANGED notMkVars
    /\ mk_pc = "get_listing"
    /\ \/ LeaveTry("request_error")
       \/ /\ mk_pc' = "body"
          /\ UNCHANGED <<mk_pending, mk_raised>>
    /\ UNCHANGED <<mk_amount, mk_listing_id, mk_status, mk_polls, mk_acquired,
                   mk_deleted, mk_warnings>>

\* The body of the async with ends or raises; its exception is thrown into the
\* generator at the yield.
MockBody ==
    /\ UNCHANGED notMkVars
    /\ mk_pc = "body"
    /\ \E e \in {"none", "body_error"} : LeaveTry(e)
    /\ UNCHANGED <<mk_amount, mk_listing_id, mk_status, mk_polls, mk_acquired,
                   mk_deleted, mk_warnings>>

\* delete = await delete_listing(create.listing_id): the request is made, and
\* raises or returns an Operation.
MockDelete ==
    /\ UNCHANGED notMkVars
    /\ mk_pc = "delete"
    /\ mk_deleted' = Append(mk_deleted, mk_listing_id)
    /\ \/ /\ mk_pc' = "done"
          /\ mk_raised' = "request_error"
          /\ UNCHANGED mk_status
       \/ /\ \E s \in OperationStatus : mk_status' = s
          /\ mk_pc' = "delete_poll"
          /\ UNCHANGED mk_raised
    /\ UNCHANGED <<mk_amount, mk_listing_id, mk_polls, mk_acquired, mk_pending,
                   mk_warnings>>

\* operation_succeeded(delete), one turn of its while loop.
MockDeletePoll ==
    /\ UNCHANGED notMkVars
    /\ mk_pc = "delete_poll"
    /\ mk_status = "PENDING"
    /\ \/ /\ mk_pc' = "done"
          /\ mk_raised' = "request_error"
          /\ UNCHANGED mk_status
       \/ /\ \E s \in OperationStatus : mk_status' = s
          /\ UNCHANGED <<mk_pc, mk_raised>>
    /\ mk_polls' = Min(mk_polls + 1, MaxPolls)
    /\ UNCHANGED <<mk_amount, mk_listing_id, mk_acquired, mk_deleted, mk_pending,
                   mk_warnings>>

\* operation_succeeded(delete) returns: False is logged; the finally block ends
\* and the exception it was entered with goes on to the caller.
MockDeleted ==
    /\ UNCHANGED notMkVars
    /\ mk_pc = "delete_poll"
    /\ mk_status # "PENDING"
    /\ mk_warnings' = IF mk_status = "FAILED" THEN mk_warnings + 1 ELSE mk_warnings
    /\ mk_raised' = mk_pending
    /\ mk_pc' = "done"
    /\ UNCHANGED <<mk_amount, mk_listing_id, mk_status, mk_polls, mk_acquired,
                   mk_deleted, mk_pending>>

NextMock ==
    \/ MockCreate
    \/ MockCreatePoll
    \/ MockCreated
    \/ MockGetListing
    \/ MockBody
    \/ MockDelete
    \/ MockDeletePoll
    \/ MockDeleted

\* ------------------------------ Listings.operation_succeeded (api/listings.py)
\* The ids of the operations of one listing.
OperationIds == {1, 2}

Operation(l, o, s) == [listing_id |-> l, id |-> o, status |-> s]

InitOperation ==
    /\ os_pc = "polling"
    /\ os_operation \in {Operation(l, o, s) : l \in ListingIds, o \in OperationIds,
                                              s \in OperationStatus}
    /\ os_polls = 0
    /\ os_result = None
    /\ os_turn = FALSE

\* A call for a PENDING operation, for the specifications of the other
\* components.
InitOsOne ==
    /\ os_pc = "polling"
    /\ os_operation = Operation(1, 1, "PENDING")
    /\ os_polls = 0
    /\ os_result = None
    /\ os_turn = FALSE

\* One turn of while operation.status == PENDING: get_listing_operation raises,
\* or returns the operation with its status of the moment. Nothing counts
\* the turns or watches a clock.
OperationPoll ==
    /\ UNCHANGED notOsVars
    /\ os_pc = "polling"
    /\ os_operation.status = "PENDING"
    /\ os_polls' = Min(os_polls + 1, MaxPolls)
    /\ os_turn' = ~os_turn
    /\ \/ /\ os_pc' = "raised"
          /\ os_result' = "request_error"
          /\ UNCHANGED os_operation
       \/ /\ \E s \in OperationStatus :
                os_operation' = Operation(os_operation.listing_id, os_operation.id, s)
          /\ UNCHANGED <<os_pc, os_result>>

\* After the loop: False for FAILED, True otherwise.
OperationReturn ==
    /\ UNCHANGED notOsVars
    /\ os_pc = "polling"
    /\ os_operation.status # "PENDING"
    /\ os_pc' = "returned"
    /\ os_result' = IF os_operation.status = "FAILED" THEN "False" ELSE "True"
    /\ UNCHANGED <<os_operation, os_polls, os_turn>>

NextOperation ==
    \/ OperationPoll
    \/ OperationReturn

\* ------------------------------------------- Filter (filter.py), ItemsQuery
\* The sizes listings come in, and the listings of the account with their size;
\* the filter modelled is 'sizes' (getter listing.variant_value, condition
\* size in allowed).
Sizes == {1, 2, 3}
MaxFilterCalls == 3
AccountListings == {[id |-> 1, size |-> 1], [id |-> 2, size |-> 1],
                    [id |-> 3, size |-> 2], [id |-> 4, size |-> 3]}

\* Filter.match(obj): everything matches while allowed_values is empty.
match(allowed_values, obj) ==
    IF allowed_values = {} THEN TRUE ELSE obj.size \in allowed_values

\* ItemsQuery._filtered, for the one filter.
Filtered(allowed_values) == {l \in AccountListings : match(allowed_values, l)}

InitFilter ==
    /\ fl_allowed_values = {}
    /\ fl_before = {}
    /\ fl_op = "none"
    /\ fl_values = {}
    /\ fl_calls = 0

\* Filter.include(values): nothing for no values, else the union.
FilterInclude(values) ==
    /\ UNCHANGED notFlVars
    /\ fl_calls < MaxFilterCalls
    /\ fl_calls' = fl_calls + 1
    /\ fl_op' = "include"
    /\ fl_values' = values
    /\ fl_before' = fl_allowed_values
    /\ fl_allowed_values' = IF values = {} THEN fl_allowed_values
                            ELSE fl_allowed_values \cup values

\* Filter.apply(values), called by filter_by: nothing for no values; the
\* intersection if allowed_values is not empty, else the values.
FilterApply(values) ==
    /\ UNCHANGED notFlVars
    /\ fl_calls < MaxFilterCalls
    /\ fl_calls' = fl_calls + 1
    /\ fl_op' = "filter_by"
    /\ fl_values' = values
    /\ fl_before' = fl_allowed_values
    /\ fl_allowed_values' = IF values = {} THEN fl_allowed_values
                            ELSE IF fl_allowed_values # {}
                                 THEN fl_allowed_values \cap values
                                 ELSE values

NextFilter ==
    \/ \E values \in SUBSET Sizes : FilterInclude(values)
    \/ \E values \in SUBSET Sizes : FilterApply(values)

\* ------------------------- ListedItem.from_inventory_listings (ext/inventory/item.py)
MaxStream == 3       \* listings in the stream

\* The streams: up to MaxStream listings with ids of their own, in any order
\* of the ids.
StreamIds == 1..MaxStream
StreamVariants == {1, 2}
Streams ==
    UNION {{s \in [1..n -> [id : StreamIds, variant_id : StreamVariants, amount : Prices]] :
                \A a, b \in 1..n : s[a].id = s[b].id => a = b} : n \in 0..MaxStream}

InitFrom ==
    /\ fi_stream \in Streams
    /\ fi_k = 0
    /\ fi_variants = <<>>
    /\ fi_items = <<>>
    /\ fi_price_updates = {}
    /\ fi_quantity_updates = {}
    /\ fi_result = <<>>
    /\ fi_pc = "loop"

\* A stream of no listings, for the specifications of the other components.
InitFiOne ==
    /\ fi_stream = <<>>
    /\ fi_k = 0
    /\ fi_variants = <<>>
    /\ fi_items = <<>>
    /\ fi_price_updates = {}
    /\ fi_quantity_updates = {}
    /\ fi_result = <<>>
    /\ fi_pc = "loop"

\* The item a listing joins: the one under items[listing.variant.id][listing.amount].
InVariant(item, listing) == item.variant_id = listing.variant_id
InDict(item, listing) ==
    item.variant_id = listing.variant_id /\ item.price = listing.amount

\* ListedItem.__init__: the quantity is the number of listing ids; it is
\* written to the Item inside, not through the setter of the ListedItem.
ListedItem(v, amount, ids) ==
    [variant_id |-> v, price |-> amount, quantity |-> Len(ids), listing_ids |-> ids]

\* One turn of the async for: the listing joins the item of its variant and
\* amount (_item.quantity += 1, listing_ids.append) or a new item is made.
FromListing ==
    /\ UNCHANGED notFiVars
    /\ fi_pc = "loop"
    /\ fi_k < Len(fi_stream)
    /\ fi_k' = fi_k + 1
    /\ LET listing == fi_stream[fi_k + 1]
           known == {j \in 1..Len(fi_items) : InDict(fi_items[j], listing)}
       IN  /\ fi_variants' = IF listing.variant_id \in Range(fi_variants)
                             THEN fi_variants
                             ELSE Append(fi_variants, listing.variant_id)
           /\ IF known # {}
              THEN LET j == CHOOSE x \in known : TRUE
                   IN  fi_items' = [fi_items EXCEPT
                           ![j].quantity = @ + 1,
                           ![j].listing_ids = Append(@, listing.id)]
              ELSE fi_items' = Append(fi_items,
                       ListedItem(listing.variant_id, listing.amount, <<listing.id>>))
    /\ UNCHANGED <<fi_stream, fi_price_updates, fi_quantity_updates, fi_result, fi_pc>>

\* items.values() then amount.values(): the items variant by variant, in the
\* order the variants and, within one, the amounts first came.
RECURSIVE DictValues(_, _)
DictValues(variants, items) ==
    IF variants = <<>> THEN <<>>
    ELSE SelectSeq(items, LAMBDA it : it.variant_id = Head(variants))
         \o DictValues(Tail(variants), items)

\* The stream is used up: the list is returned.
FromReturn ==
    /\ UNCHANGED notFiVars
    /\ fi_pc = "loop"
    /\ fi_k = Len(fi_stream)
    /\ fi_pc' = "returned"
    /\ fi_result' = DictValues(fi_variants, fi_items)
    /\ UNCHANGED <<fi_stream, fi_k, fi_variants, fi_items, fi_price_updates,
                   fi_quantity_updates>>

NextFrom ==
    \/ FromListing
    \/ FromReturn

\* ===================================================== specifications
\* The inventory: one Inventory with NItems listed items, callers writing
\* prices and quantities, and calls of update().
Init ==
    /\ InitInv
    /\ InitBatch /\ bc_timeout = 0
    /\ InitThrottle /\ now = 0
    /\ InitRetry
    /\ InitCache /\ ttl = None
    /\ InitClient
    /\ InitPubOne
    /\ InitConOne
    /\ InitPgOne
    /\ InitFiOne
    /\ InitFilter
    /\ InitOsOne
    /\ InitMkOne
    /\ InitCpOne
    /\ InitSetters

Next == NextInv

Spec == Init /\ [][Next]_vars

\* One wait for NBatches batches, under every timeout in 0..MaxTimeout.
InitB ==
    /\ InitInv
    /\ InitBatch
    /\ InitThrottle /\ now = 0
    /\ InitRetry
    /\ InitCache /\ ttl = None
    /\ InitClient
    /\ InitPubOne
    /\ InitConOne
    /\ InitPgOne
    /\ InitFiOne
    /\ InitFilter
    /\ InitOsOne
    /\ InitMkOne
    /\ InitCpOne
    /\ InitSetters

SpecBatch == InitB /\ [][NextBatch]_vars

\* One throttled function and NCalls callers.
InitT ==
    /\ InitInv
    /\ InitBatch /\ bc_timeout = 0
    /\ InitThrottle
    /\ InitRetry
    /\ InitCache /\ ttl = None
    /\ InitClient
    /\ InitPubOne
    /\ InitConOne
    /\ InitPgOne
    /\ InitFiOne
    /\ InitFilter
    /\ InitOsOne
    /\ InitMkOne
    /\ InitCpOne
    /\ InitSetters

SpecThrottle == InitT /\ [][NextThrottle]_vars

\* One function wrapped by retry, called MaxRetryCalls times.
InitR ==
    /\ InitInv
    /\ InitBatch /\ bc_timeout = 0
    /\ InitThrottle /\ now = 0
    /\ InitRetry
    /\ InitCache /\ ttl = None
    /\ InitClient
    /\ InitPubOne
    /\ InitConOne
    /\ InitPgOne
    /\ InitFiOne
    /\ InitFilter
    /\ InitOsOne
    /\ InitMkOne
    /\ InitCpOne
    /\ InitSetters

SpecRetry == InitR /\ [][NextRetry]_vars

\* The client's _do: NClientCalls callers of a throttled, retried request. The
\* clock is past the first interval, as time.time() is.
InitC ==
    /\ InitInv
    /\ InitBatch /\ bc_timeout = 0
    /\ InitThrottle /\ now = Seconds
    /\ InitRetry
    /\ InitCache /\ ttl = None
    /\ InitClient
    /\ InitPubOne
    /\ InitConOne
    /\ InitPgOne
    /\ InitFiOne
    /\ InitFilter
    /\ InitOsOne
    /\ InitMkOne
    /\ InitCpOne
    /\ InitSetters

SpecClientDo == InitC /\ [][NextClientDo]_vars

\* One cached function, under every ttl in None, 0..MaxTtl.
InitCa ==
    /\ InitInv
    /\ InitBatch /\ bc_timeout = 0
    /\ InitThrottle /\ now = 0
    /\ InitRetry
    /\ InitCache
    /\ InitClient
    /\ InitPubOne
    /\ InitConOne
    /\ InitPgOne
    /\ InitFiOne
    /\ InitFilter
    /\ InitOsOne
    /\ InitMkOne
    /\ InitCpOne
    /\ InitSetters

SpecCache == InitCa /\ [][NextCache]_vars

\* One StockXAPIClient: initialize, token refreshes, requests, close.
InitCl ==
    /\ InitInv
    /\ InitBatch /\ bc_timeout = 0
    /\ InitThrottle /\ now = 0
    /\ InitRetry
    /\ InitCache /\ ttl = None
    /\ InitClient
    /\ InitPubOne
    /\ InitConOne
    /\ InitPgOne
    /\ InitFiOne
    /\ InitFilter
    /\ InitOsOne
    /\ InitMkOne
    /\ InitCpOne
    /\ InitSetters

SpecClient == InitCl /\ [][NextClient]_vars

\* One create call, for every list of at most MaxPubItems items.
InitP ==
    /\ InitInv
    /\ InitBatch /\ bc_timeout = 0
    /\ InitThrottle /\ now = 0
    /\ InitRetry
    /\ InitCache /\ ttl = None
    /\ InitClient
    /\ InitPub
    /\ InitConOne
    /\ InitPgOne
    /\ InitFiOne
    /\ InitFilter
    /\ InitOsOne
    /\ InitMkOne
    /\ InitCpOne
    /\ InitSetters

SpecPub == InitP /\ [][NextPub]_vars

\* One consolidate call, for every chain of at most MaxResults results.
InitCo ==
    /\ InitInv
    /\ InitBatch /\ bc_timeout = 0
    /\ InitThrottle /\ now = 0
    /\ InitRetry
    /\ InitCache /\ ttl = None
    /\ InitClient
    /\ InitPubOne
    /\ InitCon
    /\ InitPgOne
    /\ InitFiOne
    /\ InitFilter
    /\ InitOsOne
    /\ InitMkOne
    /\ InitCpOne
    /\ InitSetters

SpecConsolidate == InitCo /\ [][NextConsolidate]_vars

\* One read through a paginator, for every server of at most MaxAvail items,
\* page size and limit.
InitPa ==
    /\ InitInv
    /\ InitBatch /\ bc_timeout = 0
    /\ InitThrottle /\ now = 0
    /\ InitRetry
    /\ InitCache /\ ttl = None
    /\ InitClient
    /\ InitPubOne
    /\ InitConOne
    /\ InitPg
    /\ InitFiOne
    /\ InitFilter
    /\ InitOsOne
    /\ InitMkOne
    /\ InitCpOne
    /\ InitSetters

SpecPaginate == InitPa /\ [][NextPaginate]_vars

\* The items of two inventories and the writes of their callers.
InitLi ==
    /\ InitInv
    /\ InitBatch /\ bc_timeout = 0
    /\ InitThrottle /\ now = 0
    /\ InitRetry
    /\ InitCache /\ ttl = None
    /\ InitClient
    /\ InitPubOne
    /\ InitConOne
    /\ InitPgOne
    /\ InitFiOne
    /\ InitFilter
    /\ InitOsOne
    /\ InitMkOne
    /\ InitCpOne
    /\ InitSetters

SpecSetters == InitLi /\ [][NextSetters]_vars

\* One change_price call, for every new_price, condition and order of items.
InitCh ==
    /\ InitInv
    /\ InitBatch /\ bc_timeout = 0
    /\ InitThrottle /\ now = 0
    /\ InitRetry
    /\ InitCache /\ ttl = None
    /\ InitClient
    /\ InitPubOne
    /\ InitConOne
    /\ InitPgOne
    /\ InitFiOne
    /\ InitFilter
    /\ InitOsOne
    /\ InitMkOne
    /\ InitSetters
    /\ InitCp

SpecChangePrice == InitCh /\ [][NextChangePrice]_vars

\* One use of mock_listing, for every answer of the service and every end of
\* the body.
InitMk ==
    /\ InitInv
    /\ InitBatch /\ bc_timeout = 0
    /\ InitThrottle /\ now = 0
    /\ InitRetry
    /\ InitCache /\ ttl = None
    /\ InitClient
    /\ InitPubOne
    /\ InitConOne
    /\ InitPgOne
    /\ InitFiOne
    /\ InitFilter
    /\ InitOsOne
    /\ InitSetters
    /\ InitCpOne
    /\ InitMock

SpecMock == InitMk /\ [][NextMock]_vars

\* One call of operation_succeeded for every operation and every answer of the
\* service. The coroutine is awaited to its end: a turn of its loop that can be
\* taken is taken.
InitOp ==
    /\ InitInv
    /\ InitBatch /\ bc_timeout = 0
    /\ InitThrottle /\ now = 0
    /\ InitRetry
    /\ InitCache /\ ttl = None
    /\ InitClient
    /\ InitPubOne
    /\ InitConOne
    /\ InitPgOne
    /\ InitFiOne
    /\ InitFilter
    /\ InitSetters
    /\ InitCpOne
    /\ InitMkOne
    /\ InitOperation

SpecOperation == InitOp /\ [][NextOperation]_vars /\ WF_vars(NextOperation)

\* One filter of a query under every sequence of MaxFilterCalls include and
\* filter_by calls.
InitFl ==
    /\ InitInv
    /\ InitBatch /\ bc_timeout = 0
    /\ InitThrottle /\ now = 0
    /\ InitRetry
    /\ InitCache /\ ttl = None
    /\ InitClient
    /\ InitPubOne
    /\ InitConOne
    /\ InitPgOne
    /\ InitFiOne
    /\ InitSetters
    /\ InitCpOne
    /\ InitMkOne
    /\ InitOsOne
    /\ InitFilter

SpecFilter == InitFl /\ [][NextFilter]_vars

\* One call of from_inventory_listings for every stream.
InitFi ==
    /\ InitInv
    /\ InitBatch /\ bc_timeout = 0
    /\ InitThrottle /\ now = 0
    /\ InitRetry
    /\ InitCache /\ ttl = None
    /\ InitClient
    /\ InitPubOne
    /\ InitConOne
    /\ InitPgOne
    /\ InitSetters
    /\ InitCpOne
    /\ InitMkOne
    /\ InitOsOne
    /\ InitFilter
    /\ InitFrom

SpecFrom == InitFi /\ [][NextFrom]_vars

\* ============================================================ claims C1..C3

\* C1: when Inventory.update() returns normally, every ListedItem that was
\* quantity-dirty has len(listing_ids) = quantity. Stated for the calls in which
\* no batch item FAILED at the marketplace and no other task wrote a property
\* while update() was suspended.
C1_QuantityInSyncAfterUpdate ==
    (upd_pc = "returned" /\ ~mkt_failed /\ written_q = {} /\ written_p = {})
        => \A i \in pre_quantity : Len(listing_ids[i]) = quantity[i]

\* C2: update() clears the dirty sets only on normal return. When it has raised,
\* each dirty set holds what it held at the call (and what other tasks enrolled
\* since); when it has returned, both are empty.
C2_DirtySetsClearedOnlyOnReturn ==
    /\ upd_pc = "raised" =>
          /\ price_updates = pre_price \cup written_p
          /\ quantity_updates = pre_quantity \cup written_q
    /\ upd_pc = "returned" => (price_updates = {} /\ quantity_updates = {})

\* C2 witness: update() raised from its price step after the quantity step ran,
\* and both dirty sets still hold items.
C2_Witness ==
    /\ upd_pc = "raised"
    /\ upd_error = "TypeError"
    /\ pre_quantity # {}
    /\ increase # {}
    /\ price_updates # {}
    /\ quantity_updates # {}

\* C3: a price or quantity written by another task while update() was suspended
\* is not lost: when update() returns normally the item is reconciled or is
\* still in the dirty set of that attribute.
C3_ConcurrentWriteNotLost ==
    upd_pc = "returned" =>
        /\ \A i \in written_q :
              i \in quantity_updates \/ quantity_to_sync(quantity, listing_ids, i) = 0
        /\ \A i \in written_p : i \in price_updates


\* C4: the batch wait is bounded. While batch_completed is still in its loop
\* the sleep before the next poll round is positive, so every round uses up
\* budget, and when the loop runs out of budget the wait ends with
\* StockXBatchTimeout.
C4_BatchWaitBounded ==
    /\ bc_pc \in {"sleep", "poll"} => bc_sleep > 0
    /\ bc_exhausted => (bc_pc = "fetch" \/ bc_outcome = "StockXBatchTimeout")

\* C5: when the wait times out, what reaches the reconciliation layer is a
\* StockXBatchTimeout whose queued_batch_ids are the awaited ids not observed
\* COMPLETED and whose partial results are non-queued item results.
C5_TimeoutCarriesQueuedAndPartial ==
    (bc_pc = "done" /\ bc_exhausted) =>
        /\ bc_outcome = "StockXBatchTimeout"
        /\ queued_batch_ids = Batches \ finished_batch_ids
        /\ \A r \in batch_results : r[3] # "QUEUED"

\* C6: the starts of two consecutive invocations of the wrapped function are
\* at least Seconds apart.
C6_StartsAtLeastSecondsApart ==
    \A k \in 1..(Len(started) - 1) :
        started[k + 1].time - started[k].time >= Seconds

\* Two callers were queued together and the second started exactly Seconds
\* after the first.
C6_Witness ==
    /\ Len(started) >= 2
    /\ enqueued[2].time <= started[1].time
    /\ started[2].time - started[1].time = Seconds

\* C7: wrapped calls start in the order their callers enqueued them, and at
\* most one wrapped call is executing at any time.
C7_FifoOneAtATime ==
    /\ \A k \in 1..Len(started) : started[k].call = enqueued[k].call
    /\ Cardinality({c \in Calls : req_state[c] = "running"}) <= 1

\* All the calls were queued before the first started; the second is running
\* and the third still waits.
C7_Witness ==
    /\ Len(started) = 2
    /\ Len(enqueued) = NCalls
    /\ enqueued[NCalls].time < started[1].time
    /\ th_running = started[2].call
    /\ th_queue # <<>>

\* C8: a call whose caller was cancelled while it waited in the queue is
\* removed from the queue: the wrapped function never starts for it.
C8_CancelledCallNeverRuns ==
    \A k \in 1..Len(started) : ~started[k].cancelled

\* C9: once created, the dispatcher task is never over.
C9_DispatcherLives == th_task # "dead"

\* C10: a failure whose status is not in status_codes ends the call at once:
\* it is the last thing the wrapper did and the call raised that error; a sleep
\* happens only after a failure whose status is in status_codes, and a further
\* invocation only after a sleep.
C10_RetryOnlyOnTransientStatus ==
    \A k \in 1..Len(rt_log) :
        /\ (rt_log[k].kind = "call" /\ rt_log[k].n \notin (status_codes \cup {200})) =>
              (k = Len(rt_log) /\ rt_pc = "raised" /\ rt_outcome = rt_log[k].n)
        /\ rt_log[k].kind = "sleep" =>
              (k > 1 /\ rt_log[k - 1].kind = "call" /\ rt_log[k - 1].n \in status_codes)
        /\ (rt_log[k].kind = "call" /\ k > 1) => rt_log[k - 1].kind = "sleep"

\* A 503 was retried, then a 404 ended the call after that single attempt.
C10_Witness ==
    /\ rt_pc = "raised"
    /\ Len(rt_log) = 3
    /\ rt_log[1].n = 503
    /\ rt_log[3].n = 404
    /\ rt_outcome = 404


\* The invocations and the sleeps recorded for the call in progress.
CallsMade == SelectSeq(rt_log, LAMBDA e : e.kind = "call")
SleepsMade == SelectSeq(rt_log, LAMBDA e : e.kind = "sleep")

RECURSIVE SumSleeps(_, _)
SumSleeps(s, k) == IF k = 0 THEN 0 ELSE s[k].n + SumSleeps(s, k - 1)

\* C11: in every call through the retry wrapper the wrapped function is
\* invoked at most max_attempts times and the backoff sleeps add up to at most
\* the timeout.
C11_AttemptsAndSleepBounded ==
    /\ Len(CallsMade) <= max_attempts
    /\ SumSleeps(SleepsMade, Len(SleepsMade)) <= rt_timeout
    /\ rt_waited <= rt_timeout

\* A call used all its attempts and slept the whole budget.
C11_Witness ==
    /\ rt_pc = "raised"
    /\ Len(CallsMade) = max_attempts
    /\ SumSleeps(SleepsMade, Len(SleepsMade)) = rt_timeout

\* C12: a call that returned with budget left made k transient failures, each
\* followed by a sleep of initial_delay * 2^j (plus at most a tenth of it) for
\* j = 0..k-1, then one successful invocation whose result the caller got; and
\* a call that has not invoked anything yet has its attempt counter and its
\* waited time at zero.
C12_TransientThenSuccess ==
    /\ (rt_pc = "returned" /\ rt_waited < rt_timeout) =>
          /\ Len(rt_log) = 2 * attempt + 1
          /\ attempt < max_attempts
          /\ \A j \in 0..(attempt - 1) :
                /\ rt_log[2 * j + 1].kind = "call"
                /\ rt_log[2 * j + 1].n \in status_codes
                /\ rt_log[2 * j + 2].kind = "sleep"
                /\ rt_log[2 * j + 2].n >= initial_delay * Pow2(j)
                /\ rt_log[2 * j + 2].n <= initial_delay * Pow2(j)
                                           + (initial_delay * Pow2(j)) \div 10
          /\ rt_log[2 * attempt + 1] = [kind |-> "call", n |-> 200]
          /\ rt_outcome = 200
    /\ (rt_pc = "attempt" /\ rt_log = <<>>) => (attempt = 0 /\ rt_waited = 0)

\* The second call through the wrapper failed twice with 503 and then
\* succeeded.
C12_Witness ==
    /\ rt_calls = 2
    /\ rt_pc = "returned"
    /\ rt_waited < rt_timeout
    /\ attempt = 2
    /\ rt_log[1].n = 503
    /\ rt_log[3].n = 503


\* C13: a request in its retry sequence (attempting or in a backoff sleep)
\* holds the limiter's slot: the requester is awaiting it, and every dispatch
\* began one retry sequence only after the one before was over.
C13_RetryHoldsSlot ==
    /\ rt_pc \in {"attempt", "sleep"} =>
          (th_task = "running" /\ req_state[th_running] = "running")
    /\ Len(started) = rt_calls
    /\ Cardinality({c \in Calls : req_state[c] = "running"}) <= 1

\* A request sleeps between two attempts while another call waits in the
\* queue.
C13_Witness ==
    /\ rt_pc = "sleep"
    /\ th_task = "running"
    /\ th_queue # <<>>
    /\ now > last_request_time + Seconds


\* C14: a call whose key had an entry within its TTL (or with no TTL) when the
\* call started returns the entry's value and does not invoke the underlying
\* function.
C14_LiveEntryServedFromCache ==
    \A c \in CacheCallers :
        (ca_call[c].pc # "idle" /\ ca_call[c].live) => ~ca_call[c].upstream

\* C15: two calls with the same key whose starts are less than the TTL apart
\* (any two, when there is no TTL) are never both waiting for the underlying
\* function.
C15_NoDuplicateUpstream ==
    \A c, d \in CacheCallers :
        (/\ c # d
         /\ ca_call[c].pc = "await"
         /\ ca_call[d].pc = "await"
         /\ ca_call[c].key = ca_call[d].key
         /\ ca_call[c].now <= ca_call[d].now)
            => (ttl # None /\ ca_call[d].now - ca_call[c].now >= ttl)

\* C16: the cache never holds more than maxsize entries, and an evicted entry
\* is one whose current value was stored before the value of every entry kept.
C16_EvictsLeastRecentlyStored ==
    /\ Len(cache) <= maxsize
    /\ \A s \in ca_evict.kept : ca_evict.victim < s

\* C17: a call whose key had an entry older than the TTL when the call
\* started invokes the underlying function.
C17_ExpiredEntryIsAbsent ==
    \A c \in CacheCallers :
        (ca_call[c].pc # "idle" /\ ca_call[c].expired) => ca_call[c].upstream

\* C18: every request made after close() fails with StockXNotInitialized, and
\* after close() the refresh task is not running.
C18_ClosedClientRejectsRequests ==
    /\ \A j \in 1..Len(cl_log) :
          cl_log[j].closed => cl_log[j].outcome = "StockXNotInitialized"
    /\ cl_closed => cl_refresh_task \notin {"requesting", "sleeping"}

\* C19: a request made after the refresh task died of a failed refresh fails
\* with StockXNotInitialized: the client is not ready any more.
C19_DeadRefreshLeavesReady ==
    \A j \in 1..Len(cl_log) :
        cl_log[j].task = "dead" => cl_log[j].outcome = "StockXNotInitialized"


\* The inputs of all the batches submitted, in order.
RECURSIVE Flatten(_)
Flatten(bs) == IF Len(bs) = 0 THEN <<>> ELSE Head(bs) \o Flatten(Tail(bs))

\* What the items given with one key ask for in total: their quantities for
\* publish, their quantities less their listings on the increase path.
RECURSIVE PubTotal(_, _, _)
PubTotal(items, key, k) ==
    IF k = 0 THEN 0
    ELSE PubTotal(items, key, k - 1)
         + (IF PubKey(items[k]) = key THEN items[k].quantity - items[k].listed ELSE 0)

\* C20: across the create batches submitted for a list of items there is at
\* most one input per (variant_id, price), every key given has its input, no
\* input has a key that was not given, and the input's quantity is the sum over
\* the items given with that key.
C20_CoalescedCreateInputs ==
    pub_pc = "submitted" =>
        LET all == Flatten(pub_batches)
            keyOf(x) == (x.variant_id - 1) * MaxPrice + x.amount
        IN  /\ \A a, b \in 1..Len(all) : keyOf(all[a]) = keyOf(all[b]) => a = b
            /\ \A j \in 1..Len(pub_items) :
                  \E a \in 1..Len(all) : keyOf(all[a]) = PubKey(pub_items[j])
            /\ \A a \in 1..Len(all) :
                  /\ \E j \in 1..Len(pub_items) : PubKey(pub_items[j]) = keyOf(all[a])
                  /\ all[a].quantity = PubTotal(pub_items, keyOf(all[a]), Len(pub_items))
            /\ \A b \in 1..Len(pub_batches) : Len(pub_batches[b]) <= PubBatchSize

\* publish was given two items of one variant and price, with quantities 1
\* and 2, and submitted one input of quantity 3.
C20_Witness ==
    /\ pub_pc = "submitted"
    /\ pub_path = "publish"
    /\ Len(pub_items) = 2
    /\ PubKey(pub_items[1]) = PubKey(pub_items[2])
    /\ pub_items[1].quantity = 1
    /\ pub_items[2].quantity = 2
    /\ Flatten(pub_batches) = <<[variant_id |-> pub_items[1].variant_id,
                                  amount |-> pub_items[1].price, quantity |-> 3]>>


\* ========================================================== claims C21..C30

\* C21: when update() returns after a cycle whose create batch completed with
\* no FAILED item (and no other task wrote meanwhile), every listing id created
\* for an input is, as an id of its own, in the listing_ids of the item its
\* (variant_id, price) maps to, and the results returned hold an UpdateResult
\* of that item whose created set is exactly those ids.
C21_CreatedIdsAppendedAndReported ==
    (upd_pc = "returned" /\ ~mkt_failed /\ written_q = {} /\ written_p = {}) =>
        \A j \in 1..Len(create_inputs) :
            LET i == ItemMap(iter_order, price,
                             KeyOf(create_inputs[j].variant_id, create_inputs[j].amount))
            IN  i # 0 =>
                  /\ created_log[j] \subseteq Range(listing_ids[i])
                  /\ \E r \in upd_results : r.item = i /\ r.created = created_log[j]


\* The position of element e in list l, 0 when it is not there.
PosIn(l, e) == IF \E k \in 1..Len(l) : l[k] = e
               THEN CHOOSE k \in 1..Len(l) : l[k] = e ELSE 0

\* update_quantity has just submitted its delete batch.
C22_DeleteSubmitted == upd_pc = "delete_wait" /\ written_q = {}

\* update_quantity runs its tail in this step: the loop over decrease and
\* the loop over increase.
C22_TailStep == upd_pc = "create_wait" /\ upd_pc' \in {"returned", "raised"}
                   /\ upd_error' # "StockXRequestError"

C23_PriceUpdatesSubmitted ==
    (/\ upd_pc \in {"returned", "raised"}
     /\ pre_price # {}
     /\ upd_error \notin {"StockXRequestError", "AttributeError"}) =>
        /\ upd_pc = "returned"
        /\ \A i \in pre_price :
              \E r \in upd_results :
                 /\ r.item = i
                 /\ r.updated \cup r.failed = Range(listing_ids[i])


\* A result of update() names item i, has ids in its failed set (the ids f when
\* they are known) and an ErrorDetail with the marketplace's message.
C24_CarriesFailure(i, f) ==
    \E r \in upd_results :
        /\ r.item = i
        /\ r.failed # {}
        /\ f \subseteq r.failed
        /\ \E k \in 1..Len(r.errors_detail) : r.errors_detail[k].message = ErrMsg

\* C24: an item that FAILED at the marketplace causes no exception: when no
\* request failed and nothing was price-dirty, update() returns, and its
\* results carry, for every item with a FAILED delete and for every item with
\* a FAILED create, the failure in the failed set with an ErrorDetail holding
\* the marketplace's message.
C24_FailedItemsAreCarried ==
    (/\ upd_pc \in {"returned", "raised"}
     /\ pre_quantity # {}
     /\ upd_error \notin {"StockXRequestError", "TypeError"}) =>
        /\ upd_pc = "returned"
        /\ \A i \in decrease :
              LET f == (Range(listing_ids[i]) \cap delete_inputs) \ deleted_set
              IN  f # {} => C24_CarriesFailure(i, f)
        /\ \A j \in 1..Len(create_inputs) :
              LET i == ItemMap(iter_order, price,
                               KeyOf(create_inputs[j].variant_id, create_inputs[j].amount))
              IN  (i # 0 /\ Cardinality(created_log[j]) # create_inputs[j].quantity)
                      => C24_CarriesFailure(i, {})


\* C25: update_quantity waits for each path's batches with a positive timeout.
\* Once a path's wait has used up its budget with batches still queued, the wait
\* is over, the path ends with StockXIncompleteOperation naming the queued
\* batches, and update_quantity goes on to the other path and to the one
\* StockXIncompleteOperation it raises itself.
C25_TimedOutPathIsRewrapped ==
    (/\ bc_timeout >= 1
     /\ bc_waited >= bc_timeout
     /\ queued_batch_ids # {}
     /\ bc_pc # "poll"
     /\ bc_outcome # "StockXRequestError") =>
        /\ bc_pc \in {"fetch", "done"}
        /\ bc_pc = "done" =>
              /\ delete_listings_end(bc_outcome) = "StockXIncompleteOperation"
              /\ create_listings_end(bc_outcome) = "StockXIncompleteOperation"
              /\ update_quantity_goes_on(delete_listings_end(bc_outcome))
              /\ update_quantity_goes_on(create_listings_end(bc_outcome))

\* Some result of the chain names id in its tuple f for this item.
ConNamed(item, f, id) ==
    \E k \in 1..Len(con_results) :
        con_results[k].item = item /\ id \in con_results[k][f]

\* The one tuple the id belongs in: deleted before updated before created
\* before failed.
ConStage(item, id) ==
    IF ConNamed(item, "deleted", id) THEN "deleted"
    ELSE IF ConNamed(item, "updated", id) THEN "updated"
    ELSE IF ConNamed(item, "created", id) THEN "created"
    ELSE IF ConNamed(item, "failed", id) THEN "failed"
    ELSE "none"

\* C26: consolidate yields one result per item of the chain, and in it every
\* listing id that a result of that item names is in exactly one of created,
\* updated, deleted and failed, the one chosen by the precedence deleted >
\* updated > created > failed; an id no result names is in none.
C26_ConsolidatePrecedence ==
    con_pc = "done" =>
        /\ {r.item : r \in con_out} = {con_results[k].item : k \in 1..Len(con_results)}
        /\ \A r \in con_out :
            /\ Cardinality({q \in con_out : q.item = r.item}) = 1
            /\ \A id \in ConIds :
                /\ id \in r.deleted <=> ConStage(r.item, id) = "deleted"
                /\ id \in r.updated <=> ConStage(r.item, id) = "updated"
                /\ id \in r.created <=> ConStage(r.item, id) = "created"
                /\ id \in r.failed <=> ConStage(r.item, id) = "failed"

\* An id reported created by one result and updated by another of the same
\* item is in updated only after consolidation.
C26_Witness ==
    /\ con_pc = "done"
    /\ \E r \in con_out : \E id \in ConIds :
        /\ ConNamed(r.item, "created", id)
        /\ ConNamed(r.item, "updated", id)
        /\ id \in r.updated
        /\ id \notin r.created

\* The occurrences of the ErrorDetails with this message in a tuple of them,
\* added up.
RECURSIVE SumOccurrences(_, _)
SumOccurrences(errors, message) ==
    IF Len(errors) = 0 THEN 0
    ELSE (IF Head(errors).message = message THEN Head(errors).occurrences ELSE 0)
         + SumOccurrences(Tail(errors), message)

\* C27: for each item and each error message, the consolidated result has one
\* ErrorDetail with that message exactly when a result of the item has one,
\* and its occurrences are the sum of the occurrences of the ErrorDetails with
\* that message in the results of the item.
C27_OccurrencesAreSummed ==
    con_pc = "done" =>
        \A r \in con_out : \A m \in ConMessages :
            LET merged == ChainErrors(SelectSeq(con_results, LAMBDA q : q.item = r.item))
                total  == SumOccurrences(merged, m)
                out    == {j \in 1..Len(r.errors_detail) : r.errors_detail[j].message = m}
            IN  /\ total = 0 => out = {}
                /\ total > 0 =>
                      /\ Cardinality(out) = 1
                      /\ \A j \in out : r.errors_detail[j].occurrences = total

\* The first n elements of a tuple, all of it when it has fewer.
FirstN(s, n) == SubSeq(s, 1, Min(n, Len(s)))

\* What a read with this limit is to yield of a tuple of items.
UpToLimit(s) == IF pg_limit = None THEN s ELSE FirstN(s, pg_limit)

\* C28: the cursor paginator makes no request after a response whose
\* nextCursor is empty or absent, and none once limit items have been yielded;
\* when the nextCursor of the first page is empty or absent it yields the
\* first page, up to the limit, and nothing else, and it ends without an error.
C28_NoRequestAfterLastCursor ==
    pg_mode = "cursor" =>
        /\ \A k \in 1..(Len(pg_requests) - 1) :
              pg_requests[k].nextCursor \notin {"", Absent}
        /\ \A k \in 1..Len(pg_requests) :
              pg_limit # None => pg_requests[k].count < pg_limit
        /\ (Len(pg_requests) >= 1 /\ pg_requests[1].nextCursor \in {"", Absent}) =>
              /\ pg_pc # "raised"
              /\ pg_yielded = FirstN(UpToLimit(PageItems(1)), Len(pg_yielded))
              /\ pg_pc = "done" => pg_yielded = UpToLimit(PageItems(1))

\* C29: the page-number paginator in reverse mode, reading a server that
\* reports count 0, makes one request and yields nothing.
C29_ReverseEmptyMakesOneRequest ==
    (pg_mode = "reverse" /\ pg_total = 0) =>
        /\ pg_yielded = <<>>
        /\ Len(pg_requests) <= 1
        /\ pg_pc = "done" => Len(pg_requests) = 1

\* The items of the server in the order a complete read yields them: first to
\* last, and last to first in reverse mode.
Available ==
    IF pg_mode = "reverse" THEN [j \in 1..pg_total |-> pg_total + 1 - j]
    ELSE [j \in 1..pg_total |-> j]

\* C30: with a limit L both paginators yield the first min(L, available)
\* items of the server in its order and no others, end without an error
\* having yielded exactly that many, and request no page once L items have
\* been yielded.
C30_LimitHonoredAcrossPages ==
    pg_limit # None =>
        /\ Len(pg_yielded) <= Min(pg_limit, pg_total)
        /\ pg_yielded = FirstN(Available, Len(pg_yielded))
        /\ pg_pc # "raised"
        /\ pg_pc = "done" => Len(pg_yielded) = Min(pg_limit, pg_total)
        /\ \A k \in 1..Len(pg_requests) :
              (pg_mode = "cursor" \/ pg_requests[k].pageNumber > 0) =>
                  pg_requests[k].count < pg_limit

\* ========================================================= claims C31..C40
\* C40: a call of the retry wrapper sleeps at most max_attempts - 1 times, and
\* when its max_attempts-th attempt has failed it raises that attempt's error
\* with no sleep after it.
C40_NoSleepAfterFinalAttempt ==
    /\ Len(SleepsMade) <= max_attempts - 1
    /\ (rt_pc = "raised" /\ Len(CallsMade) = max_attempts) =>
          /\ rt_log[Len(rt_log)].kind = "call"
          /\ rt_outcome = rt_log[Len(rt_log)].n

\* C38: between the starts of two consecutive attempts that the client sends,
\* whether the second is a retry of the same request or the first attempt of
\* the next queued one, at least the throttle interval elapses.
C38_AttemptsAtLeastSecondsApart ==
    attempt_before # None => attempt_time - attempt_before >= Seconds

\* C39: when the create inputs of a list of items have been built, every item
\* of the list has the quantity and the listing ids it had before.
C39_InputsLeaveItemsUnchanged ==
    pub_pc = "submitted" =>
        \A j \in 1..Len(pub_items) :
            /\ pub_after[j].quantity = pub_items[j].quantity
            /\ pub_after[j].listed = pub_items[j].listed

\* C32: a write of a value other than the current one to the price (quantity)
\* of a ListedItem stores the value and adds the item to the price (quantity)
\* dirty set of its own Inventory, and changes no other item and no other set;
\* a write of the current value changes nothing.
C32_WriteEnrollsInOwnDirtySet ==
    li_last.attr # "none" =>
        LET i == li_last.item
            v == li_last.value
        IN  IF li_last.attr = "price"
            THEN /\ li_quantity = li_last.quantity
                 /\ li_quantity_updates = li_last.quantity_updates
                 /\ li_price = [li_last.price EXCEPT ![i] = v]
                 /\ li_price_updates =
                       IF v # li_last.price[i]
                       THEN [li_last.price_updates EXCEPT ![Owner(i)] = @ \cup {i}]
                       ELSE li_last.price_updates
            ELSE /\ li_price = li_last.price
                 /\ li_price_updates = li_last.price_updates
                 /\ li_quantity = [li_last.quantity EXCEPT ![i] = v]
                 /\ li_quantity_updates =
                       IF v # li_last.quantity[i]
                       THEN [li_last.quantity_updates EXCEPT ![Owner(i)] = @ \cup {i}]
                       ELSE li_last.quantity_updates

\* An item of the second inventory, not in its price dirty set, was written the
\* price it already had after a new quantity had enrolled it in the quantity
\* dirty set, which is all that holds it.
C32_Witness ==
    /\ li_last.attr = "price"
    /\ li_last.item = 2
    /\ li_last.value = li_last.price[2]
    /\ li_price_updates = [v \in Inventories |-> {}]
    /\ li_quantity_updates = [v \in Inventories |-> IF v = 2 THEN {2} ELSE {}]

\* C31: every item that meets the condition and is given a price is given the
\* value of new_price for that item, and once the loop has been through an item
\* that meets the condition its price is that value.
C31_NewPriceEvaluatedPerItem ==
    \A j \in 1..cp_k :
        LET item == cp_items[j]
        IN  item \in cp_condition =>
              /\ cp_price[item] = computed_value(item, cp_fn)
              /\ cp_assigned[item] \in {None, computed_value(item, cp_fn)}

\* C33: whenever the probe listing of mock_listing was created successfully,
\* delete_listing is called for its listing id exactly once when the scope is
\* left, whether the body ended, the body raised or get_listing raised; and
\* never before the scope is left.
C33_DeleteIssuedOnceOnExit ==
    /\ mk_acquired /\ mk_pc = "done" => mk_deleted = <<mk_listing_id>>
    /\ mk_pc \in {"create", "create_poll", "get_listing", "body", "delete"}
           => mk_deleted = <<>>
    /\ Len(mk_deleted) <= 1

\* The body raised and the scope has been left.
C33_Witness ==
    /\ mk_acquired
    /\ mk_pc = "done"
    /\ mk_pending = "body_error"
    /\ mk_deleted = <<mk_listing_id>>

\* C34: a failure while deleting the probe listing on scope exit never reaches
\* the caller and never replaces the exception of the body: the caller gets
\* what the try block was left with, nothing if the body ended.
C34_ReleaseFailureSwallowed ==
    mk_acquired /\ mk_pc = "done" => mk_raised = mk_pending

\* C36: Listings.operation_succeeded terminates for every operation: it returns,
\* or raises (StockXOperationTimeout once the operation has stayed PENDING
\* beyond the poll budget).
C36_OperationSucceededTerminates == <>(os_pc # "polling")

\* C37: a filter_by with values that are not empty never widens the result:
\* the listings the filter matches afterwards are among those it matched
\* before, and each of them has its field value in the values given.
C37_FilterByNarrows ==
    fl_op = "filter_by" /\ fl_values # {} =>
        /\ Filtered(fl_allowed_values) \subseteq Filtered(fl_before)
        /\ \A l \in Filtered(fl_allowed_values) : l.size \in fl_values

\* The listings of the stream a ListedItem of the result stands for, and their
\* ids in arrival order.
C35_Group(item) ==
    SelectSeq(fi_stream, LAMBDA l : l.variant_id = item.variant_id /\ l.amount = item.price)
C35_Ids(listings) == [j \in 1..Len(listings) |-> listings[j].id]

\* C35: from_inventory_listings returns exactly one ListedItem per distinct
\* (variant_id, amount) of the stream; its quantity is the size of its group
\* and the length of its listing_ids, which are the ids of the group in arrival
\* order; every id of the stream is in the listing_ids of exactly one item,
\* once; and neither dirty set of the Inventory holds anything.
C35_OneItemPerVariantAndAmount ==
    fi_pc = "returned" =>
        /\ \A a, b \in 1..Len(fi_result) :
               fi_result[a].variant_id = fi_result[b].variant_id
                   /\ fi_result[a].price = fi_result[b].price => a = b
        /\ {<<it.variant_id, it.price>> : it \in Range(fi_result)}
               = {<<l.variant_id, l.amount>> : l \in Range(fi_stream)}
        /\ \A it \in Range(fi_result) :
               /\ it.listing_ids = C35_Ids(C35_Group(it))
               /\ it.quantity = Len(C35_Group(it))
               /\ it.quantity = Len(it.listing_ids)
        /\ \A l \in Range(fi_stream) :
               Cardinality({<<a, j>> \in (1..Len(fi_result)) \X (1..MaxStream) :
                   j <= Len(fi_result[a].listing_ids)
                       /\ fi_result[a].listing_ids[j] = l.id}) = 1
        /\ UNION {Range(it.listing_ids) : it \in Range(fi_result)}
               = {l.id : l \in Range(fi_stream)}
        /\ fi_price_updates = {}
        /\ fi_quantity_updates = {}

\* A stream of three listings, ids not in ascending order, two of one variant
\* and amount with a listing of another amount between them.
C35_Witness ==
    /\ fi_pc = "returned"
    /\ Len(fi_stream) = 3
    /\ fi_stream[1].id > fi_stream[3].id
    /\ fi_stream[1].variant_id = fi_stream[3].variant_id
    /\ fi_stream[1].amount = fi_stream[3].amount
    /\ fi_stream[2].variant_id = fi_stream[1].variant_id
    /\ fi_stream[2].amount # fi_stream[1].amount
    /\ Len(fi_result) = 2

====
